---- MODULE Spec2Model ----
(***************************************************************************)
(* State-machine model of lixf6/pyHex:                                     *)
(*   - hexparser/utils/a2l_importer.py : A2LDataImporter (Spec), its two   *)
(*       preparation tasks in the worker pool (SpecPrepare), histories of  *)
(*       imports (SpecHistory), the default work package (SpecWorkPackage) *)
(*   - hexparser/utils/a2l_client.py   : parse_all_a2l_data (SpecClient)   *)
(*   - hexparser/utils/hex_client.py   : IntelHexFile    (SpecHex)         *)
(*       RecordLayoutDecoder (SpecDecode), _normalize_characteristic_number *)
(*       (SpecNormalize), the lookup functions (SpecLookup),               *)
(*       parse_and_save_all_characteristics (SpecBatch)                    *)
(*   - hexparser/utils/excel_to_cfg_converter.py : ExcelToCfgConverter     *)
(*       (SpecSheet)                                                       *)
(* The relational store is a record of tables; every table is a set of     *)
(* rows carrying the primary key "id" handed out by the per-table          *)
(* sequence db.seq.  Python None for a row reference is the id 0.          *)
(***************************************************************************)
EXTENDS Integers, Sequences, FiniteSets, TLC

VARIABLES
    db,          \* the persistent store (all cal_* tables and their sequences)
    pc,          \* position of the caller inside A2LDataImporter
    imp,         \* the A2LDataImporter object (fields set by __init__)
    parsed,      \* the parse result handed to save
    stats,       \* the stats dict of save
    loc,         \* local variables of save
    savepoint,   \* what transaction.atomic() restores when the block raises
    hist,        \* history: store at entry of save, previous call, counters
    hex_lines,   \* the lines of the Intel-HEX file on disk
    hexf,        \* the IntelHexFile object (_records, _record_starts)
    fetch,       \* the last fetch_bytes call and its outcome
    dec,         \* the last RecordLayoutDecoder construction and decode call
    norm,        \* the last _normalize_characteristic_number call of the HEX client
    look,        \* the last HEX lookup: arguments, fetch_bytes calls, result
    batch,       \* batch extraction: Characteristic rows, Hex table, stats
    sheet,       \* the spreadsheet converter: rows read, signals, file written
    prep,        \* the two preparation tasks of save in the worker pool
    wpk,         \* the WorkPackage table and the callers resolving the default row
    a2l          \* the last parse_all_a2l_data call: the file's blocks, the result

\* the variables of SpecPrepare, SpecWorkPackage and SpecClient
new_vars == <<prep, wpk, a2l>>

aux_vars == <<dec, norm, look, batch, sheet, new_vars>>

vars == <<db, pc, imp, parsed, stats, loc, savepoint, hist, hex_lines, hexf, fetch, aux_vars>>

imp_vars == <<db, pc, imp, parsed, stats, loc, savepoint, hist>>
hex_vars == <<hex_lines, hexf, fetch, aux_vars>>

(***************************************************************************)
(* Bounds                                                                  *)
(***************************************************************************)
MaxSaves == 2        \* calls of save in one behaviour
MaxEdits == 1        \* operator edits in one behaviour

(***************************************************************************)
(* Generic helpers                                                         *)
(***************************************************************************)
Max(S) == CHOOSE x \in S : \A y \in S : y <= x
Min(S) == CHOOSE x \in S : \A y \in S : x <= y
Range(s) == {s[i] : i \in 1..Len(s)}
Ids(T) == {r.id : r \in T}

\* QuerySet.first() on an unordered queryset orders by primary key
First(T) == CHOOSE r \in T : \A q \in T : r.id <= q.id

(***************************************************************************)
(* Raw values of the parse result.  A parsed field is a Python int, a      *)
(* string or None; a string is kept as its sign, its prefix and its digits *)
(* so that the normalisers below compute what int() computes.              *)
(***************************************************************************)
RawInt(n) == [tag |-> "int", neg |-> FALSE, digits |-> <<>>, val |-> n]
RawNone == [tag |-> "none", neg |-> FALSE, digits |-> <<>>, val |-> 0]
RawAbsent == [tag |-> "absent", neg |-> FALSE, digits |-> <<>>, val |-> 0]
RawHex(ng, ds) == [tag |-> "hex", neg |-> ng, digits |-> ds, val |-> 0]
RawDec(ng, ds) == [tag |-> "dec", neg |-> ng, digits |-> ds, val |-> 0]
RawBad == [tag |-> "bad", neg |-> FALSE, digits |-> <<>>, val |-> 0]

RECURSIVE DigitsValue(_, _)
DigitsValue(ds, base) ==
    IF ds = <<>> THEN 0
    ELSE DigitsValue(SubSeq(ds, 1, Len(ds) - 1), base) * base + ds[Len(ds)]

StrToInt(v, base) == IF v.neg THEN 0 - DigitsValue(v.digits, base) ELSE DigitsValue(v.digits, base)

\* A2LDataImporter._normalize_address
normalize_address(value) ==
    CASE value.tag \in {"none", "absent"} -> 0
      [] value.tag = "hex" -> StrToInt(value, 16)
      [] value.tag = "dec" -> StrToInt(value, 10)
      [] value.tag = "bad" -> 0
      [] OTHER -> value.val

\* A2LDataImporter._normalize_characteristic_number applied to
\* char_data.get("number", 0): an absent key is the int 0, None is 0, an int
\* is itself, a decimal string is int(float(s)), any other string is 0.
normalize_characteristic_number(value) ==
    CASE value.tag \in {"none", "absent"} -> 0
      [] value.tag = "int" -> value.val
      [] value.tag = "dec" -> StrToInt(value, 10)
      [] OTHER -> 0

(***************************************************************************)
(* Values handed to the HEX client.  A number field is None, an int, a     *)
(* float (its sign, its integer part and whether a fraction is left) or a  *)
(* string (a sequence of one-character strings).  An address is an int of  *)
(* any width: its sign and its magnitude as little-endian bytes without    *)
(* leading zero bytes.                                                     *)
(***************************************************************************)
NumNone == [tag |-> "none", neg |-> FALSE, val |-> 0, frac |-> FALSE, text |-> <<>>]
NumInt(n) == [tag |-> "int", neg |-> n < 0, val |-> n, frac |-> FALSE, text |-> <<>>]
NumFloat(ng, whole, fr) == [tag |-> "float", neg |-> ng, val |-> IF ng THEN 0 - whole ELSE whole, frac |-> fr, text |-> <<>>]
NumStr(t) == [tag |-> "str", neg |-> FALSE, val |-> 0, frac |-> FALSE, text |-> t]

(***************************************************************************)
(* Parse results (the output of the A2L parsing client)                    *)
(***************************************************************************)
THIS_FILE == 1       \* id of the A2LFile the importer is bound to
OTHER_FILE == 2      \* id of another A2LFile with rows of its own
NoName == "<missing>"    \* a dict without the "name" key

IdentityCoeffs == <<0, 1, 0, 0, 0, 1>>

ParsedChar(n, cm, addr, lid, ty, num) ==
    [name |-> n, conversion_method |-> cm, ecu_address |-> addr, long_identifier |-> lid,
     characteristic_type |-> ty, record_layout |-> "Scalar_UBYTE", number |-> num]

ParsedMeas(n, cm, addr, lid) ==
    [name |-> n, conversion_method |-> cm, ecu_address |-> addr, long_identifier |-> lid,
     datatype |-> "UBYTE", resolution |-> 0]

cA == ParsedChar("A", "x", RawHex(FALSE, <<1, 0>>), "a1", "VALUE", RawInt(1))
cA2 == ParsedChar("A", "x", RawHex(FALSE, <<1, 0>>), "a2", "VALUE", RawInt(1))
cAdup == ParsedChar("A", "x", RawDec(FALSE, <<1, 6>>), "a3", "VALUE", RawInt(1))
cB == ParsedChar("B", "x", RawInt(32), "b1", "CURVE", RawDec(FALSE, <<3>>))
cV0 == ParsedChar("V", "x", RawInt(48), "v1", "VALUE", RawAbsent)
cC0 == ParsedChar("C", "y", RawHex(TRUE, <<1, 0>>), "c1", "CURVE", RawInt(0))
cNoCm == ParsedChar("N", "zz", RawInt(64), "n1", "VALUE", RawInt(1))
cNeg == ParsedChar("G", "x", RawInt(80), "g1", "VAL_BLK", RawInt(-1))

mA == ParsedMeas("MA", "x", RawInt(96), "ma1")
mB == ParsedMeas("MB", "y", RawBad, "mb1")

BaseParsed ==
    [project |-> <<[name |-> "P", long_identifier |-> "p"]>>,
     module |-> <<[name |-> "M1", long_identifier |-> "m"]>>,
     asap2_version |-> <<[version_no |-> 1, upgrade_no |-> 71]>>,
     compu_methods |-> <<[name |-> "x", coeffs |-> <<>>]>>,
     characteristics |-> <<cA, cB>>,
     measurements |-> <<mA>>,
     axis_pts |-> <<[name |-> "ap1", ecu_address |-> RawInt(112), conversion_method |-> "x", max_axis_points |-> 3]>>,
     axis_descrs |-> <<[characteristic_name |-> "B", attribute |-> "STD_AXIS", max_axis_points |-> 3]>>,
     axis_pts_refs |-> <<[characteristic_name |-> "B", attribute |-> "STD_AXIS", axis_points |-> "ap1"]>>,
     record_layouts |-> <<[module_name |-> "M1", name |-> "RL1"]>>,
     axis_pts_x |-> <<[record_layout_name |-> "RL1", position |-> 1]>>]

\* the same file after one long identifier was edited
EditedParsed == [BaseParsed EXCEPT !.characteristics = <<cA2, cB>>]

\* another revision: renamed module, B dropped, a second conversion method,
\* point counts that are absent or zero, a duplicate and an unresolved symbol
RevisedParsed ==
    [BaseParsed EXCEPT
        !.module = <<[name |-> "M2", long_identifier |-> "m"]>>,
        !.compu_methods = <<[name |-> "x", coeffs |-> <<<<0, 2, 0, 0, 0, 1>>>>],
                            [name |-> "y", coeffs |-> <<<<0, 2, 0, 0, 0, 1>>>>]>>,
        !.characteristics = <<cA, cAdup, cV0, cC0, cNoCm>>,
        !.measurements = <<mA, mB>>,
        !.axis_descrs = <<[characteristic_name |-> "C", attribute |-> "", max_axis_points |-> 0]>>,
        !.axis_pts_refs = <<[characteristic_name |-> "C", attribute |-> "", axis_points |-> "ap1"],
                            [characteristic_name |-> "Z", attribute |-> "", axis_points |-> "ap1"]>>,
        !.record_layouts = <<[module_name |-> "M2", name |-> "RL2"]>>,
        !.axis_pts_x = <<>>]

\* a parse result without PROJECT and MODULE
BareParsed ==
    [BaseParsed EXCEPT !.project = <<>>, !.module = <<>>, !.asap2_version = <<>>,
                       !.record_layouts = <<[module_name |-> "", name |-> "RL1"]>>]

\* a parse result the store rejects: a negative point count
NegativeParsed == [BaseParsed EXCEPT !.characteristics = <<cA2, cNeg>>]

\* a parse result with a conversion method that has no name
NamelessParsed ==
    [BaseParsed EXCEPT !.compu_methods = <<[name |-> "x", coeffs |-> <<>>],
                                           [name |-> NoName, coeffs |-> <<>>]>>]

\* a parse result naming another PROJECT for the same file

ParsedInputs == {BaseParsed, EditedParsed, RevisedParsed, BareParsed,
                 NegativeParsed, NamelessParsed}

(***************************************************************************)
(* The store (models.py)                                                   *)
(***************************************************************************)
UNBOUND == "unbound"     \* the work package name "未绑定"
SYSTEM == "system"

\* a row of cal_characteristic; the last six fields are filled in by operators
CharacteristicRow(i, file, n, addr, cm, lid, ty, rl, num, mod, wp, upd) ==
    [id |-> i, a2l_file |-> file, name |-> n, ecu_address |-> addr, conversion_method |-> cm,
     long_identifier |-> lid, characteristic_type |-> ty, record_layout |-> rl, number |-> num,
     module |-> mod, work_package |-> wp, updater |-> upd,
     is_key |-> FALSE, edit_upper_limit |-> -1, edit_lower_limit |-> -1,
     related_test_cases |-> "", pass_standard |-> "", remark |-> ""]

\* a row of cal_measurement
MeasurementRow(i, file, n, addr, cm, lid, dt, res, mod, wp) ==
    [id |-> i, a2l_file |-> file, name |-> n, ecu_address |-> addr, conversion_method |-> cm,
     long_identifier |-> lid, datatype |-> dt, resolution |-> res,
     module |-> mod, work_package |-> wp, remark |-> ""]

\* the store before the first import: an operator's work package and the
\* rows of another A2L file
InitialStore ==
    [work_packages |-> {[id |-> 1, name |-> "WP_A", owner |-> "op", deleted |-> FALSE]},
     projects |-> {[id |-> 1, a2l_file |-> OTHER_FILE, name |-> "Q", long_identifier |-> "q"]},
     modules |-> {[id |-> 1, project |-> 1, name |-> "M1", long_identifier |-> "m"]},
     asap2_versions |-> {},
     coeffs |-> {[id |-> 1, key |-> IdentityCoeffs]},
     compu_methods |-> {[id |-> 1, a2l_file |-> OTHER_FILE, name |-> "x", coefficient |-> 1]},
     characteristics |-> {CharacteristicRow(1, OTHER_FILE, "B", 32, 1, "b0", "CURVE", "Scalar_UBYTE", 3, 1, 1, SYSTEM)},
     measurements |-> {MeasurementRow(1, OTHER_FILE, "MA", 96, 1, "ma0", "UBYTE", 0, 1, 1)},
     axis_pts |-> {},
     axis_descrs |-> {[id |-> 1, characteristic |-> 1, attribute |-> "STD_AXIS", max_axis_points |-> 3]},
     axis_pts_refs |-> {[id |-> 1, axis_descr |-> 1, axis_points |-> "ap1"]},
     record_layouts |-> {[id |-> 1, module |-> 1, name |-> "RL1"]},
     axis_pts_x |-> {[id |-> 1, record_layout |-> 1, position |-> 1]},
     seq |-> [work_packages |-> 2, projects |-> 2, modules |-> 2, asap2_versions |-> 1, coeffs |-> 2,
              compu_methods |-> 2, characteristics |-> 2, measurements |-> 2, axis_pts |-> 1,
              axis_descrs |-> 2, axis_pts_refs |-> 2, record_layouts |-> 2, axis_pts_x |-> 2]]

ZeroStats ==
    [projects |-> 0, modules |-> 0, module_parameters |-> 0, asap2_version |-> 0, compu_methods |-> 0,
     coeffs |-> 0, measurements |-> 0, characteristics |-> 0, axis_pts |-> 0, axis_descrs |-> 0,
     axis_pts_refs |-> 0, axis_pts_x |-> 0, record_layouts |-> 0]

NoImporter == [module_id |-> 0, updater |-> "", default_module |-> 0, default_work_package |-> 0]

EmptyDict == [k \in {} |-> 0]

NoLocals ==
    [project |-> 0, module |-> 0, compu_methods |-> EmptyDict, old_compu_method_id_to_name |-> EmptyDict,
     compu_method_map |-> EmptyDict, existing_char_dict |-> EmptyDict, existing_meas_dict |-> EmptyDict,
     char_prepared |-> FALSE, meas_prepared |-> FALSE,
     char_to_create |-> <<>>, char_to_update |-> <<>>, meas_to_create |-> <<>>, meas_to_update |-> <<>>]

NoHistory ==
    [entry_db |-> InitialStore, n_saves |-> 0, n_edits |-> 0, prev_parsed |-> <<>>, prev_view |-> {},
     prev_meas_view |-> {}, prev_imp |-> NoImporter, edited |-> FALSE,
     char_keys |-> {}, meas_keys |-> {}]

NoHexFile == [loaded |-> FALSE, error |-> FALSE, records |-> <<>>, record_starts |-> <<>>]
NoFetch == [called |-> FALSE, address |-> 0, size |-> 0, outcome |-> "", data |-> <<>>, first_line |-> -1]

NoDecode == [called |-> FALSE, layout |-> <<>>, data |-> <<>>, outcome |-> "", fmt |-> "", value |-> 0]

NoNorm == [called |-> FALSE, value |-> NumNone, characteristic_type |-> "", outcome |-> "", result |-> 0]

NoLook == [called |-> FALSE, path |-> "", args |-> <<>>, outcome |-> "", fetches |-> <<>>, result |-> <<>>]

NoBatch ==
    [chars |-> <<>>, hex_table |-> {}, next_id |-> 1, runs |-> 0, edited |-> FALSE, outcome |-> "",
     stats |-> <<>>, prepared |-> <<>>, fetches |-> <<>>]

NoPrep ==
    [started |-> FALSE, call |-> 0, joined |-> FALSE, char |-> <<>>, meas |-> <<>>, heap |-> <<>>,
     access |-> <<>>]
\* the two callers that resolve the default work package
Callers == {1, 2}
IdleCaller == [pc |-> "idle", path |-> "", calls |-> 0, entry |-> {}, result |-> 0, created |-> FALSE]

\* the WorkPackage table of the initial store, nobody resolving
NoWpk ==
    [table |-> InitialStore.work_packages, seq |-> InitialStore.seq.work_packages,
     deletions |-> 0, caller |-> [c \in Callers |-> IdleCaller]]
NoA2l == [called |-> FALSE, char_type |-> "", own |-> <<>>, stored |-> <<>>, relation |-> <<>>, table |-> {}, out |-> <<>>]

NoSheet ==
    [called |-> FALSE, op |-> "", data |-> <<>>, outcome |-> "", signals |-> <<>>,
     total_signals_count |-> 0, written |-> FALSE, file |-> <<>>]

Init ==
    /\ db = InitialStore
    /\ pc = "idle"
    /\ imp = NoImporter
    /\ parsed = BaseParsed
    /\ stats = ZeroStats
    /\ loc = NoLocals
    /\ savepoint = InitialStore
    /\ hist = NoHistory
    /\ hex_lines = <<>>
    /\ hexf = NoHexFile
    /\ fetch = NoFetch
    /\ dec = NoDecode
    /\ norm = NoNorm
    /\ look = NoLook
    /\ batch = NoBatch
    /\ sheet = NoSheet
    /\ prep = NoPrep
    /\ wpk = NoWpk
    /\ a2l = NoA2l

(***************************************************************************)
(* The rows scoped to the A2L file of the importer                         *)
(***************************************************************************)
\* the rows of this A2L file
FileCharacteristics(d) == {c \in d.characteristics : c.a2l_file = THIS_FILE}
FileMeasurements(d) == {m \in d.measurements : m.a2l_file = THIS_FILE}
FileAxisDescrs(d) == {a \in d.axis_descrs : a.characteristic \in Ids(FileCharacteristics(d))}
FileAxisPtsRefs(d) == {r \in d.axis_pts_refs : r.axis_descr \in Ids(FileAxisDescrs(d))}
\* the modules of this A2L file and the RecordLayout / AxisPtsX rows under them
FileModules(d) == {m \in d.modules : \E pr \in d.projects : pr.id = m.project /\ pr.a2l_file = THIS_FILE}
FileRecordLayouts(d) == {r \in d.record_layouts : r.module \in Ids(FileModules(d))}
FileAxisPtsX(d) == {x \in d.axis_pts_x : x.record_layout \in Ids(FileRecordLayouts(d))}
FileCompuMethods(d) == {c \in d.compu_methods : c.a2l_file = THIS_FILE}

\* the rows an operator can hang a new row on
Lowest(S) == {x \in S : \A y \in S : x <= y}

ManualParents(d) ==
    {THIS_FILE} \cup Ids(FileCharacteristics(d)) \cup Ids(FileAxisDescrs(d)) \cup Ids(FileModules(d))
    \cup Ids(FileRecordLayouts(d))

(***************************************************************************)
(* A2LDataImporter.__init__                                                *)
(***************************************************************************)
\* A2LDataImporter._resolve_default_module
resolve_default_module(d, module_id) ==
    IF module_id = 0 THEN 0
    ELSE IF module_id \in Ids(d.modules) THEN module_id ELSE 0

\* the rows WorkPackage.objects.get_or_create(name="未绑定", owner="system",
\* deleted=False) looks up
UnboundRows(d) == {w \in d.work_packages : w.name = UNBOUND /\ w.owner = SYSTEM /\ ~w.deleted}

\* A2LDataImporter._resolve_default_unbound_work_package: the store after the
\* call and the id of the row it returns
resolve_default_unbound_work_package(d) ==
    IF UnboundRows(d) # {}
    THEN [db |-> d, id |-> First(UnboundRows(d)).id]
    ELSE [db |-> [d EXCEPT !.work_packages = @ \cup {[id |-> d.seq.work_packages, name |-> UNBOUND,
                                                      owner |-> SYSTEM, deleted |-> FALSE]},
                           !.seq.work_packages = @ + 1],
          id |-> d.seq.work_packages]

\* importer = A2LDataImporter(a2l_file, module_id, updater)
Construct(module_id, updater) ==
    /\ pc \in {"idle", "ready"}
    /\ hist.n_saves < MaxSaves
    /\ Cardinality(UnboundRows(db)) <= 1     \* get_or_create raises on several rows
    /\ LET wp == resolve_default_unbound_work_package(db) IN
         /\ db' = wp.db
         /\ imp' = [module_id |-> module_id,
                    updater |-> IF updater = "" THEN SYSTEM ELSE updater,
                    default_module |-> resolve_default_module(db, module_id),
                    default_work_package |-> wp.id]
    /\ pc' = "ready"
    /\ UNCHANGED <<parsed, stats, loc, savepoint, hist, hex_vars>>

(***************************************************************************)
(* Operators of the management console (admin.py) between two imports      *)
(***************************************************************************)
\* an operator fills in the manual fields of a Characteristic
OperatorEditCharacteristic(cid) ==
    /\ pc \in {"idle", "ready"}
    /\ hist.n_edits < MaxEdits
    /\ hist.n_saves < MaxSaves
    /\ \E c \in FileCharacteristics(db) :
         /\ c.id = cid
         /\ db' = [db EXCEPT !.characteristics = (@ \ {c}) \cup
                     {[c EXCEPT !.is_key = TRUE, !.edit_upper_limit = 10, !.edit_lower_limit = 1,
                                !.related_test_cases = "tc", !.pass_standard = "ps", !.remark = "r"]}]
    /\ hist' = [hist EXCEPT !.n_edits = @ + 1, !.edited = TRUE]
    /\ UNCHANGED <<pc, imp, parsed, stats, loc, savepoint, hex_vars>>

\* an operator binds a Characteristic or a Measurement to a work package
OperatorBindWorkPackage(table, rid, wp) ==
    /\ pc \in {"idle", "ready"}
    /\ hist.n_edits < MaxEdits
    /\ hist.n_saves < MaxSaves
    /\ wp \in Ids(db.work_packages)
    /\ \/ /\ table = "characteristics"
          /\ \E c \in FileCharacteristics(db) :
               /\ c.id = rid /\ c.work_package # wp
               /\ db' = [db EXCEPT !.characteristics = (@ \ {c}) \cup {[c EXCEPT !.work_package = wp]}]
       \/ /\ table = "measurements"
          /\ \E m \in FileMeasurements(db) :
               /\ m.id = rid /\ m.work_package # wp
               /\ db' = [db EXCEPT !.measurements = (@ \ {m}) \cup {[m EXCEPT !.work_package = wp]}]
    /\ hist' = [hist EXCEPT !.n_edits = @ + 1, !.edited = TRUE]
    /\ UNCHANGED <<pc, imp, parsed, stats, loc, savepoint, hex_vars>>

\* an operator adds a row of one of the recreated types by hand, under the
\* first row it can hang on
OperatorAddRow(table, parent) ==
    /\ pc \in {"idle", "ready"}
    /\ hist.n_edits < MaxEdits
    /\ hist.n_saves < MaxSaves
    /\ \/ /\ table = "compu_methods" /\ parent = THIS_FILE
          /\ db' = [db EXCEPT !.compu_methods = @ \cup {[id |-> db.seq.compu_methods, a2l_file |-> parent,
                                                         name |-> "manual", coefficient |-> 1]},
                              !.seq.compu_methods = @ + 1]
       \/ /\ table = "axis_descrs" /\ parent \in Lowest(Ids(FileCharacteristics(db)))
          /\ db' = [db EXCEPT !.axis_descrs = @ \cup {[id |-> db.seq.axis_descrs, characteristic |-> parent,
                                                       attribute |-> "manual", max_axis_points |-> 0]},
                              !.seq.axis_descrs = @ + 1]
       \/ /\ table = "axis_pts_refs" /\ parent \in Lowest(Ids(FileAxisDescrs(db)))
          /\ db' = [db EXCEPT !.axis_pts_refs = @ \cup {[id |-> db.seq.axis_pts_refs, axis_descr |-> parent,
                                                         axis_points |-> "manual"]},
                              !.seq.axis_pts_refs = @ + 1]
       \/ /\ table = "record_layouts" /\ parent \in Lowest(Ids(FileModules(db)))
          /\ db' = [db EXCEPT !.record_layouts = @ \cup {[id |-> db.seq.record_layouts, module |-> parent,
                                                          name |-> "manual"]},
                              !.seq.record_layouts = @ + 1]
       \/ /\ table = "axis_pts_x" /\ parent \in Lowest(Ids(FileRecordLayouts(db)))
          /\ db' = [db EXCEPT !.axis_pts_x = @ \cup {[id |-> db.seq.axis_pts_x, record_layout |-> parent,
                                                      position |-> 9]},
                              !.seq.axis_pts_x = @ + 1]
    /\ hist' = [hist EXCEPT !.n_edits = @ + 1, !.edited = TRUE]
    /\ UNCHANGED <<pc, imp, parsed, stats, loc, savepoint, hex_vars>>

(***************************************************************************)
(* A2LDataImporter.save, step by step inside transaction.atomic()          *)
(***************************************************************************)
Put(dict, k, v) == (k :> v) @@ dict
Get(dict, k, default) == IF k \in DOMAIN dict THEN dict[k] ELSE default

\* A2LDataImporter._sync_project: update_or_create by (a2l_file, name); the
\* one-to-one a2l_file column rejects a second project of the file
sync_project(d, p, st) ==
    IF p.project = <<>> THEN [db |-> d, stats |-> st, project |-> 0, raised |-> FALSE]
    ELSE LET proj_data == p.project[1]
             found == {r \in d.projects : r.a2l_file = THIS_FILE /\ r.name = proj_data.name}
         IN IF found # {}
            THEN LET r == First(found) IN
                 [db |-> [d EXCEPT !.projects = (@ \ {r}) \cup
                                     {[r EXCEPT !.long_identifier = proj_data.long_identifier]}],
                  stats |-> st, project |-> r.id, raised |-> FALSE]
            ELSE IF \E r \in d.projects : r.a2l_file = THIS_FILE
                 THEN [db |-> d, stats |-> st, project |-> 0, raised |-> TRUE]
                 ELSE [db |-> [d EXCEPT !.projects = @ \cup {[id |-> d.seq.projects, a2l_file |-> THIS_FILE,
                                                              name |-> proj_data.name,
                                                              long_identifier |-> proj_data.long_identifier]},
                                        !.seq.projects = @ + 1],
                       stats |-> [st EXCEPT !.projects = @ + 1], project |-> d.seq.projects,
                       raised |-> FALSE]

\* A2LDataImporter._sync_module: update_or_create by (project, name)
sync_module(d, p, project, st) ==
    IF p.module = <<>> \/ project = 0 THEN [db |-> d, stats |-> st, module |-> 0]
    ELSE LET mod_data == p.module[1]
             found == {r \in d.modules : r.project = project /\ r.name = mod_data.name}
         IN IF found # {}
            THEN LET r == First(found) IN
                 [db |-> [d EXCEPT !.modules = (@ \ {r}) \cup
                                     {[r EXCEPT !.long_identifier = mod_data.long_identifier]}],
                  stats |-> st, module |-> r.id]
            ELSE [db |-> [d EXCEPT !.modules = @ \cup {[id |-> d.seq.modules, project |-> project,
                                                        name |-> mod_data.name,
                                                        long_identifier |-> mod_data.long_identifier]},
                                   !.seq.modules = @ + 1],
                  stats |-> [st EXCEPT !.modules = @ + 1], module |-> d.seq.modules]

\* A2LDataImporter._sync_asap_version: update_or_create by (a2l_file,
\* version_no, upgrade_no); a rejected create (one-to-one a2l_file) is caught
sync_asap_version(d, p, st) ==
    IF p.asap2_version = <<>> THEN [db |-> d, stats |-> st]
    ELSE LET v == p.asap2_version[1]
             found == {r \in d.asap2_versions : r.a2l_file = THIS_FILE /\ r.version_no = v.version_no
                                                 /\ r.upgrade_no = v.upgrade_no}
         IN IF found # {} \/ (\E r \in d.asap2_versions : r.a2l_file = THIS_FILE)
            THEN [db |-> d, stats |-> st]
            ELSE [db |-> [d EXCEPT !.asap2_versions = @ \cup {[id |-> d.seq.asap2_versions,
                                                                a2l_file |-> THIS_FILE,
                                                                version_no |-> v.version_no,
                                                                upgrade_no |-> v.upgrade_no]},
                                   !.seq.asap2_versions = @ + 1],
                  stats |-> [st EXCEPT !.asap2_version = 1]]

\* stats = {...}; with transaction.atomic(): _sync_project, _sync_module,
\* default_module, _sync_asap_version
save_begin(p) ==
    /\ pc = "ready"
    /\ parsed' = p
    /\ savepoint' = db
    /\ hist' = [hist EXCEPT !.entry_db = db, !.n_saves = @ + 1]
    /\ LET pr == sync_project(db, p, ZeroStats) IN
         IF pr.raised
         THEN /\ db' = pr.db
              /\ stats' = pr.stats
              /\ loc' = NoLocals
              /\ imp' = imp
              /\ pc' = "raising"
         ELSE LET mo == sync_module(pr.db, p, pr.project, pr.stats)
                  av == sync_asap_version(mo.db, p, mo.stats)
              IN /\ db' = av.db
                 /\ stats' = av.stats
                 /\ loc' = [NoLocals EXCEPT !.project = pr.project, !.module = mo.module]
                 /\ imp' = IF mo.module # 0 /\ imp.default_module = 0
                           THEN [imp EXCEPT !.default_module = mo.module] ELSE imp
                 /\ pc' = "compu_methods"
    /\ UNCHANGED hex_vars

\* a caller runs save, at most MaxSaves times in one behaviour
SaveBegin(p) ==
    /\ hist.n_saves < MaxSaves
    /\ save_begin(p)

\* Coeffs.objects.get_or_create(a=.., .., f=..): the store and the row id
get_or_create_coeffs(d, key) ==
    LET found == {r \in d.coeffs : r.key = key} IN
    IF found # {} THEN [db |-> d, id |-> First(found).id, created |-> FALSE]
    ELSE [db |-> [d EXCEPT !.coeffs = @ \cup {[id |-> d.seq.coeffs, key |-> key]}, !.seq.coeffs = @ + 1],
          id |-> d.seq.coeffs, created |-> TRUE]

\* the creation loop of _sync_compu_methods from element i on; coeffs_cache
\* only saves queries, so every element goes through get_or_create here
RECURSIVE create_compu_methods(_, _, _, _, _)
create_compu_methods(d, st, cms, compu_methods, i) ==
    IF i > Len(cms) THEN [db |-> d, stats |-> st, compu_methods |-> compu_methods, raised |-> FALSE]
    ELSE LET cm_data == cms[i]
             co == IF cm_data.coeffs # <<>> THEN get_or_create_coeffs(d, cm_data.coeffs[1])
                   ELSE get_or_create_coeffs(d, IdentityCoeffs)
             st1 == IF cm_data.coeffs # <<>> /\ co.created THEN [st EXCEPT !.coeffs = @ + 1] ELSE st
         IN IF cm_data.name = NoName
            THEN [db |-> co.db, stats |-> st1, compu_methods |-> compu_methods, raised |-> TRUE]
            ELSE create_compu_methods(
                    [co.db EXCEPT !.compu_methods = @ \cup {[id |-> co.db.seq.compu_methods,
                                                             a2l_file |-> THIS_FILE, name |-> cm_data.name,
                                                             coefficient |-> co.id]},
                                  !.seq.compu_methods = @ + 1],
                    [st1 EXCEPT !.compu_methods = @ + 1],
                    cms,
                    Put(compu_methods, cm_data.name, co.db.seq.compu_methods),
                    i + 1)

\* a variant without the snapshot: the names of the deleted rows are lost
old_compu_method_id_to_name_empty(d) == EmptyDict

\* the id -> name snapshot taken before the rows are deleted
old_compu_method_id_to_name(d) ==
    [i \in {r.id : r \in {c \in d.compu_methods : c.a2l_file = THIS_FILE}} |->
        (CHOOSE c \in d.compu_methods : c.id = i).name]

\* CompuMethod.objects.filter(a2l_file=self.a2l_file).delete()
delete_compu_methods(d) == [d EXCEPT !.compu_methods = {c \in @ : c.a2l_file # THIS_FILE}]

\* A2LDataImporter._build_compu_method_map
RECURSIVE setdefault_all(_, _)
setdefault_all(dict, rows) ==
    IF rows = {} THEN dict
    ELSE LET r == First(rows) IN
         setdefault_all(IF r.name \in DOMAIN dict THEN dict ELSE Put(dict, r.name, r.id), rows \ {r})

build_compu_method_map(d, existing_map) ==
    setdefault_all(existing_map, {c \in d.compu_methods : c.a2l_file = THIS_FILE})

\* compu_methods, old_compu_method_id_to_name = self._sync_compu_methods(..)
\* compu_method_map = self._build_compu_method_map(compu_methods)
SyncCompuMethods ==
    /\ pc = "compu_methods"
    /\ LET old == old_compu_method_id_to_name(db)
           res == create_compu_methods(delete_compu_methods(db), stats, parsed.compu_methods, EmptyDict, 1)
       IN /\ db' = res.db
          /\ stats' = res.stats
          /\ IF res.raised
             THEN /\ loc' = loc
                  /\ pc' = "raising"
             ELSE /\ loc' = [loc EXCEPT !.compu_methods = res.compu_methods,
                                        !.old_compu_method_id_to_name = old,
                                        !.compu_method_map = build_compu_method_map(res.db, res.compu_methods)]
                  /\ pc' = "delete_axis"
    /\ UNCHANGED <<imp, parsed, savepoint, hist, hex_vars>>

\* a variant that leaves the dependent rows in place
delete_axis_dependents_skipped(d) == d

\* save, lines 110-128: AxisPtsRef rows, then AxisDescr rows, of the file's
\* Characteristic rows
delete_axis_dependents(d) ==
    IF FileCharacteristics(d) = {} THEN d
    ELSE [d EXCEPT !.axis_pts_refs = @ \ FileAxisPtsRefs(d),
                   !.axis_descrs = @ \ FileAxisDescrs(d)]

DeleteAxisDependents ==
    /\ pc = "delete_axis"
    /\ db' = delete_axis_dependents(db)
    /\ pc' = "load_existing"
    /\ UNCHANGED <<imp, parsed, stats, loc, savepoint, hist, hex_vars>>

\* save, lines 137-147: the conversion-method name of a stored row, through the
\* snapshot, else through a row that still exists, else ""
conversion_method_name(d, old, item) ==
    IF item.conversion_method = 0 THEN ""
    ELSE IF Get(old, item.conversion_method, "") # "" THEN old[item.conversion_method]
    ELSE IF \E c \in d.compu_methods : c.id = item.conversion_method
         THEN (CHOOSE c \in d.compu_methods : c.id = item.conversion_method).name
         ELSE ""

ExistingKey(d, old, item) == <<item.name, item.ecu_address, conversion_method_name(d, old, item)>>

\* save, lines 133-167: existing rows by (name, ecu_address, conversion-method
\* name); rows are visited in primary-key order, a later row replaces an
\* earlier one under the same key
existing_dict(d, old, rows) ==
    [k \in {ExistingKey(d, old, r) : r \in rows} |->
        CHOOSE r \in rows : /\ ExistingKey(d, old, r) = k
                            /\ \A q \in rows : ExistingKey(d, old, q) = k => q.id <= r.id]

LoadExisting ==
    /\ pc = "load_existing"
    /\ loc' = [loc EXCEPT
                !.existing_char_dict = existing_dict(db, loc.old_compu_method_id_to_name, FileCharacteristics(db)),
                !.existing_meas_dict = existing_dict(db, loc.old_compu_method_id_to_name, FileMeasurements(db))]
    /\ pc' = "prepare"
    /\ UNCHANGED <<db, imp, parsed, stats, savepoint, hist, hex_vars>>

\* A2LDataImporter._find_existing_module
find_existing_module(d) ==
    LET mods == {m \in d.modules : \E pr \in d.projects : pr.id = m.project /\ pr.a2l_file = THIS_FILE}
    IN IF mods = {} THEN 0 ELSE First(mods).id

\* the defaults dict of _prepare_characteristics_data_with_existing
characteristic_defaults(char_data, ecu_address, conversion_method, module_fallback, importer) ==
    [long_identifier |-> char_data.long_identifier,
     characteristic_type |-> char_data.characteristic_type,
     ecu_address |-> ecu_address,
     record_layout |-> char_data.record_layout,
     conversion_method |-> conversion_method,
     number |-> normalize_characteristic_number(char_data.number),
     module |-> module_fallback,
     work_package |-> importer.default_work_package,
     updater |-> importer.updater]

\* the fields of defaults copied into an existing row object
Assign(existing, defaults) ==
    [f \in DOMAIN existing |-> IF f \in DOMAIN defaults THEN defaults[f] ELSE existing[f]]

\* a variant that does not compare the foreign keys
Changed_without_foreign_keys(existing, defaults) ==
    \E f \in DOMAIN defaults \ {"conversion_method", "module", "work_package"} :
        existing[f] # defaults[f]

\* the comparison loop: some field of defaults differs from the row object
Changed(existing, defaults) == \E f \in DOMAIN defaults : existing[f] # defaults[f]

\* the loop of _prepare_characteristics_data_with_existing from element i on
RECURSIVE prepare_characteristics(_, _, _, _, _, _, _, _, _)
prepare_characteristics(chars, compu_method_map, existing, module_fallback, importer, to_create, to_update, processed_keys, i) ==
    IF i > Len(chars) THEN [to_create |-> to_create, to_update |-> to_update]
    ELSE LET char_data == chars[i]
             conversion_method == Get(compu_method_map, char_data.conversion_method, 0)
             ecu_address == normalize_address(char_data.ecu_address)
             key == <<char_data.name, ecu_address, char_data.conversion_method>>
             defaults == characteristic_defaults(char_data, ecu_address, conversion_method,
                                                 module_fallback, importer)
         IN IF conversion_method = 0 \/ key \in processed_keys
            THEN prepare_characteristics(chars, compu_method_map, existing, module_fallback, importer,
                                         to_create, to_update, processed_keys, i + 1)
            ELSE IF key \in DOMAIN existing
            THEN prepare_characteristics(chars, compu_method_map, existing, module_fallback, importer,
                    to_create,
                    IF Changed(existing[key], defaults)
                    THEN Append(to_update, Assign(existing[key], defaults)) ELSE to_update,
                    processed_keys \cup {key}, i + 1)
            ELSE prepare_characteristics(chars, compu_method_map, existing, module_fallback, importer,
                    Append(to_create,
                           CharacteristicRow(0, THIS_FILE, char_data.name, defaults.ecu_address,
                                             defaults.conversion_method, defaults.long_identifier,
                                             defaults.characteristic_type, defaults.record_layout,
                                             defaults.number, defaults.module, defaults.work_package,
                                             defaults.updater)),
                    to_update, processed_keys \cup {key}, i + 1)

\* executor.submit(self._prepare_characteristics_data_with_existing, ..)
PrepareCharacteristics ==
    /\ pc = "prepare"
    /\ ~loc.char_prepared
    /\ LET module_fallback == IF imp.default_module # 0 THEN imp.default_module
                              ELSE find_existing_module(db)
           res == IF module_fallback = 0 THEN [to_create |-> <<>>, to_update |-> <<>>]
                  ELSE prepare_characteristics(parsed.characteristics, loc.compu_method_map,
                                               loc.existing_char_dict, module_fallback, imp,
                                               <<>>, <<>>, {}, 1)
       IN loc' = [loc EXCEPT !.char_prepared = TRUE, !.char_to_create = res.to_create,
                             !.char_to_update = res.to_update]
    /\ pc' = IF loc.meas_prepared THEN "write_characteristics" ELSE "prepare"
    /\ UNCHANGED <<db, imp, parsed, stats, savepoint, hist, hex_vars>>

\* the defaults dict of _prepare_measurements_data_with_existing
measurement_defaults(meas_data, ecu_address, conversion_method, module_fallback, importer) ==
    [long_identifier |-> meas_data.long_identifier,
     datatype |-> meas_data.datatype,
     conversion_method |-> conversion_method,
     resolution |-> meas_data.resolution,
     ecu_address |-> ecu_address,
     module |-> module_fallback,
     work_package |-> importer.default_work_package]

\* the loop of _prepare_measurements_data_with_existing from element i on
RECURSIVE prepare_measurements(_, _, _, _, _, _, _, _, _)
prepare_measurements(meas, compu_method_map, existing, module_fallback, importer, to_create, to_update, processed_keys, i) ==
    IF i > Len(meas) THEN [to_create |-> to_create, to_update |-> to_update]
    ELSE LET meas_data == meas[i]
             conversion_method == Get(compu_method_map, meas_data.conversion_method, 0)
             ecu_address == normalize_address(meas_data.ecu_address)
             key == <<meas_data.name, ecu_address, meas_data.conversion_method>>
             defaults == measurement_defaults(meas_data, ecu_address, conversion_method,
                                              module_fallback, importer)
         IN IF conversion_method = 0 \/ key \in processed_keys
            THEN prepare_measurements(meas, compu_method_map, existing, module_fallback, importer,
                                      to_create, to_update, processed_keys, i + 1)
            ELSE IF key \in DOMAIN existing
            THEN prepare_measurements(meas, compu_method_map, existing, module_fallback, importer,
                    to_create,
                    IF Changed(existing[key], defaults)
                    THEN Append(to_update, Assign(existing[key], defaults)) ELSE to_update,
                    processed_keys \cup {key}, i + 1)
            ELSE prepare_measurements(meas, compu_method_map, existing, module_fallback, importer,
                    Append(to_create,
                           MeasurementRow(0, THIS_FILE, meas_data.name, defaults.ecu_address,
                                          defaults.conversion_method, defaults.long_identifier,
                                          defaults.datatype, defaults.resolution, defaults.module,
                                          defaults.work_package)),
                    to_update, processed_keys \cup {key}, i + 1)

\* executor.submit(self._prepare_measurements_data_with_existing, ..)
PrepareMeasurements ==
    /\ pc = "prepare"
    /\ ~loc.meas_prepared
    /\ LET module_fallback == IF imp.default_module # 0 THEN imp.default_module
                              ELSE IF loc.module # 0 THEN loc.module
                              ELSE find_existing_module(db)
           res == IF module_fallback = 0 THEN [to_create |-> <<>>, to_update |-> <<>>]
                  ELSE prepare_measurements(parsed.measurements, loc.compu_method_map,
                                            loc.existing_meas_dict, module_fallback, imp,
                                            <<>>, <<>>, {}, 1)
       IN loc' = [loc EXCEPT !.meas_prepared = TRUE, !.meas_to_create = res.to_create,
                             !.meas_to_update = res.to_update]
    /\ pc' = IF loc.char_prepared THEN "write_characteristics" ELSE "prepare"
    /\ UNCHANGED <<db, imp, parsed, stats, savepoint, hist, hex_vars>>

(***************************************************************************)
(* Bulk writes                                                             *)
(***************************************************************************)
\* objs.bulk_create(rows): the rows get the next primary keys in list order
RECURSIVE bulk_create(_, _, _, _)
bulk_create(d, table, rows, i) ==
    IF i > Len(rows) THEN d
    ELSE bulk_create([d EXCEPT ![table] = @ \cup {[rows[i] EXCEPT !.id = d.seq[table]]},
                               !.seq[table] = @ + 1],
                     table, rows, i + 1)

\* a variant that replaces the stored row: the fields that are not named fall
\* back to the model defaults
RECURSIVE bulk_update_replacing(_, _, _, _, _)
bulk_update_replacing(d, table, rows, fields, i) ==
    IF i > Len(rows) THEN d
    ELSE LET obj == rows[i]
             old == {r \in d[table] : r.id = obj.id}
             default(f) == CASE f = "is_key" -> FALSE
                             [] f \in {"edit_upper_limit", "edit_lower_limit"} -> -1
                             [] OTHER -> ""
             new == {[f \in DOMAIN r |->
                         IF f \in fields THEN obj[f]
                         ELSE IF f \in {"id", "name", "a2l_file"} THEN r[f]
                         ELSE default(f)] : r \in old}
         IN bulk_update_replacing([d EXCEPT ![table] = (@ \ old) \cup new], table, rows, fields, i + 1)

\* objs.bulk_update(rows, fields): the named fields of each row object are
\* written to the stored row with the same primary key
RECURSIVE bulk_update(_, _, _, _, _)
bulk_update(d, table, rows, fields, i) ==
    IF i > Len(rows) THEN d
    ELSE LET obj == rows[i]
             old == {r \in d[table] : r.id = obj.id}
             new == {[f \in DOMAIN r |-> IF f \in fields THEN obj[f] ELSE r[f]] : r \in old}
         IN bulk_update([d EXCEPT ![table] = (@ \ old) \cup new], table, rows, fields, i + 1)

\* the fields save passes to Characteristic.objects.bulk_update
CharacteristicUpdateFields ==
    {"long_identifier", "characteristic_type", "ecu_address", "record_layout", "conversion_method",
     "number", "module", "work_package", "updater"}

\* the fields save passes to Measurement.objects.bulk_update
MeasurementUpdateFields ==
    {"long_identifier", "datatype", "conversion_method", "resolution", "ecu_address", "module",
     "work_package"}

\* unique_together = (a2l_file, name, ecu_address, conversion_method)
UniqueTogetherViolated(rows) ==
    \E r1, r2 \in rows : /\ r1.id # r2.id
                         /\ r1.a2l_file = r2.a2l_file /\ r1.name = r2.name
                         /\ r1.ecu_address = r2.ecu_address
                         /\ r1.conversion_method = r2.conversion_method

\* models.py: number = PositiveIntegerField, unique_together
CharacteristicsRejected(d) ==
    \/ \E r \in d.characteristics : r.number < 0
    \/ UniqueTogetherViolated(d.characteristics)

\* models.py: resolution = PositiveIntegerField, unique_together
MeasurementsRejected(d) ==
    \/ \E r \in d.measurements : r.resolution < 0
    \/ UniqueTogetherViolated(d.measurements)

\* save, lines 192-221
WriteCharacteristics ==
    /\ pc = "write_characteristics"
    /\ LET created == bulk_create(db, "characteristics", loc.char_to_create, 1)
           updated == bulk_update(created, "characteristics", loc.char_to_update,
                                  CharacteristicUpdateFields, 1)
       IN IF CharacteristicsRejected(created)
          THEN /\ db' = db
               /\ stats' = stats
               /\ pc' = "raising"
          ELSE IF CharacteristicsRejected(updated)
          THEN /\ db' = created
               /\ stats' = [stats EXCEPT !.characteristics = @ + Len(loc.char_to_create)]
               /\ pc' = "raising"
          ELSE /\ db' = updated
               /\ stats' = [stats EXCEPT !.characteristics = @ + Len(loc.char_to_create)]
               /\ pc' = "write_measurements"
    /\ UNCHANGED <<imp, parsed, loc, savepoint, hist, hex_vars>>

\* save, lines 223-250
WriteMeasurements ==
    /\ pc = "write_measurements"
    /\ LET created == bulk_create(db, "measurements", loc.meas_to_create, 1)
           updated == bulk_update(created, "measurements", loc.meas_to_update,
                                  MeasurementUpdateFields, 1)
       IN IF MeasurementsRejected(created)
          THEN /\ db' = db
               /\ stats' = stats
               /\ pc' = "raising"
          ELSE IF MeasurementsRejected(updated)
          THEN /\ db' = created
               /\ stats' = [stats EXCEPT !.measurements = @ + Len(loc.meas_to_create)]
               /\ pc' = "raising"
          ELSE /\ db' = updated
               /\ stats' = [stats EXCEPT !.measurements = @ + Len(loc.meas_to_create)]
               /\ pc' = "sync_axis_pts"
    /\ UNCHANGED <<imp, parsed, loc, savepoint, hist, hex_vars>>

(***************************************************************************)
(* Axis tables, record layouts                                             *)
(***************************************************************************)
\* the loop of _sync_axis_pts from element i on: update_or_create by
\* (a2l_file, name, address, conversion_method)
RECURSIVE sync_axis_pts(_, _, _, _, _)
sync_axis_pts(d, st, list, module, i) ==
    IF i > Len(list) THEN [db |-> d, stats |-> st]
    ELSE LET axis_pts_data == list[i]
             address == normalize_address(axis_pts_data.ecu_address)
             found == {r \in d.axis_pts : /\ r.a2l_file = THIS_FILE /\ r.name = axis_pts_data.name
                                          /\ r.address = address
                                          /\ r.conversion_method = axis_pts_data.conversion_method}
         IN IF axis_pts_data.name = "" THEN sync_axis_pts(d, st, list, module, i + 1)
            ELSE IF found # {}
            THEN LET r == First(found) IN
                 sync_axis_pts([d EXCEPT !.axis_pts = (@ \ {r}) \cup
                                   {[r EXCEPT !.max_axis_points = axis_pts_data.max_axis_points,
                                              !.module = module]}],
                               st, list, module, i + 1)
            ELSE sync_axis_pts([d EXCEPT !.axis_pts = @ \cup
                                   {[id |-> d.seq.axis_pts, a2l_file |-> THIS_FILE,
                                     name |-> axis_pts_data.name, address |-> address,
                                     conversion_method |-> axis_pts_data.conversion_method,
                                     max_axis_points |-> axis_pts_data.max_axis_points,
                                     module |-> module]},
                                  !.seq.axis_pts = @ + 1],
                               [st EXCEPT !.axis_pts = @ + 1], list, module, i + 1)

SyncAxisPts ==
    /\ pc = "sync_axis_pts"
    /\ LET module == IF imp.default_module # 0 THEN imp.default_module ELSE find_existing_module(db)
           res == sync_axis_pts(db, stats, parsed.axis_pts, module, 1)
       IN /\ db' = res.db
          /\ stats' = res.stats
    /\ pc' = "sync_axis_descrs"
    /\ UNCHANGED <<imp, parsed, loc, savepoint, hist, hex_vars>>

\* Characteristic.objects.filter(a2l_file=self.a2l_file, name=char_name)
CharacteristicsNamed(d, char_name) == {c \in FileCharacteristics(d) : c.name = char_name}

\* the creation loop of _sync_axis_descrs from element i on
RECURSIVE create_axis_descrs(_, _, _, _)
create_axis_descrs(d, st, list, i) ==
    IF i > Len(list) THEN [db |-> d, stats |-> st]
    ELSE LET axis_descr == list[i]
             characteristics == CharacteristicsNamed(d, axis_descr.characteristic_name)
         IN IF axis_descr.characteristic_name = "" \/ characteristics = {}
            THEN create_axis_descrs(d, st, list, i + 1)
            ELSE create_axis_descrs(
                    [d EXCEPT !.axis_descrs = @ \cup
                        {[id |-> d.seq.axis_descrs, characteristic |-> First(characteristics).id,
                          attribute |-> axis_descr.attribute,
                          max_axis_points |-> axis_descr.max_axis_points]},
                              !.seq.axis_descrs = @ + 1],
                    [st EXCEPT !.axis_descrs = @ + 1], list, i + 1)

\* A2LDataImporter._sync_axis_descrs
SyncAxisDescrs ==
    /\ pc = "sync_axis_descrs"
    /\ LET res == create_axis_descrs([db EXCEPT !.axis_descrs = @ \ FileAxisDescrs(db)],
                                     stats, parsed.axis_descrs, 1)
       IN /\ db' = res.db
          /\ stats' = res.stats
    /\ pc' = "sync_axis_pts_refs"
    /\ UNCHANGED <<imp, parsed, loc, savepoint, hist, hex_vars>>

\* _sync_axis_pts_refs, lines 1045-1062: the AxisDescr a reference is attached
\* to: by attribute, else by an existing reference to the same axis points,
\* else the first AxisDescr of the Characteristic; 0 if there is none
resolve_axis_descr(d, characteristic, axis_ref) ==
    LET own == {a \in d.axis_descrs : a.characteristic = characteristic}
        by_attribute == {a \in own : a.attribute = axis_ref.attribute}
        by_points == {a \in own : \E r \in d.axis_pts_refs :
                                     r.axis_descr = a.id /\ r.axis_points = axis_ref.axis_points}
    IN IF axis_ref.attribute # "" /\ by_attribute # {} THEN First(by_attribute).id
       ELSE IF by_points # {} THEN First(by_points).id
       ELSE IF own # {} THEN First(own).id
       ELSE 0

\* the creation loop of _sync_axis_pts_refs from element i on
RECURSIVE create_axis_pts_refs(_, _, _, _)
create_axis_pts_refs(d, st, list, i) ==
    IF i > Len(list) THEN [db |-> d, stats |-> st]
    ELSE LET axis_ref == list[i]
             characteristics == CharacteristicsNamed(d, axis_ref.characteristic_name)
             axis_descr == IF characteristics = {} THEN 0
                           ELSE resolve_axis_descr(d, First(characteristics).id, axis_ref)
         IN IF axis_ref.characteristic_name = "" \/ axis_ref.axis_points = ""
               \/ characteristics = {} \/ axis_descr = 0
            THEN create_axis_pts_refs(d, st, list, i + 1)
            ELSE create_axis_pts_refs(
                    [d EXCEPT !.axis_pts_refs = @ \cup
                        {[id |-> d.seq.axis_pts_refs, axis_descr |-> axis_descr,
                          axis_points |-> axis_ref.axis_points]},
                              !.seq.axis_pts_refs = @ + 1],
                    [st EXCEPT !.axis_pts_refs = @ + 1], list, i + 1)

\* A2LDataImporter._sync_axis_pts_refs
SyncAxisPtsRefs ==
    /\ pc = "sync_axis_pts_refs"
    /\ LET res == create_axis_pts_refs([db EXCEPT !.axis_pts_refs = @ \ FileAxisPtsRefs(db)],
                                       stats, parsed.axis_pts_refs, 1)
       IN /\ db' = res.db
          /\ stats' = res.stats
    /\ pc' = "sync_record_layouts"
    /\ UNCHANGED <<imp, parsed, loc, savepoint, hist, hex_vars>>

\* A2LModule.objects.filter(project__a2l_file=self.a2l_file, name=..).first()
module_by_name(d, module_name) ==
    LET mods == {m \in d.modules : /\ m.name = module_name
                                   /\ \E pr \in d.projects : pr.id = m.project /\ pr.a2l_file = THIS_FILE}
    IN IF mods = {} THEN 0 ELSE First(mods).id

\* _sync_record_layouts, lines 1176-1188
modules_to_process(d, p, module, importer) ==
    LET target_module == IF module # 0 THEN module ELSE importer.default_module
    IN ({target_module} \cup {module_by_name(d, p.record_layouts[i].module_name) :
                                i \in {j \in 1..Len(p.record_layouts) : p.record_layouts[j].module_name # ""}})
       \ {0}

\* _sync_record_layouts, lines 1191-1207: the AxisPtsX rows, then the
\* RecordLayout rows, of the processed modules
delete_record_layouts(d, mods) ==
    LET record_layouts == {r \in d.record_layouts : r.module \in mods}
    IN [d EXCEPT !.axis_pts_x = {x \in @ : x.record_layout \notin Ids(record_layouts)},
                 !.record_layouts = @ \ record_layouts]

\* the creation loop of _sync_record_layouts from element i on
RECURSIVE create_record_layouts(_, _, _, _, _, _)
create_record_layouts(d, st, list, module, importer, i) ==
    IF i > Len(list) THEN [db |-> d, stats |-> st]
    ELSE LET rl_data == list[i]
             target_module == IF module # 0 THEN module
                              ELSE IF importer.default_module # 0 THEN importer.default_module
                              ELSE IF rl_data.module_name # "" THEN module_by_name(d, rl_data.module_name)
                              ELSE 0
         IN IF target_module = 0 THEN create_record_layouts(d, st, list, module, importer, i + 1)
            ELSE create_record_layouts(
                    [d EXCEPT !.record_layouts = @ \cup {[id |-> d.seq.record_layouts,
                                                          module |-> target_module, name |-> rl_data.name]},
                              !.seq.record_layouts = @ + 1],
                    [st EXCEPT !.record_layouts = @ + 1], list, module, importer, i + 1)

\* A2LDataImporter._sync_record_layouts
SyncRecordLayouts ==
    /\ pc = "sync_record_layouts"
    /\ LET res == create_record_layouts(
                      delete_record_layouts(db, modules_to_process(db, parsed, loc.module, imp)),
                      stats, parsed.record_layouts, loc.module, imp, 1)
       IN /\ db' = res.db
          /\ stats' = res.stats
    /\ pc' = "sync_axis_pts_x"
    /\ UNCHANGED <<imp, parsed, loc, savepoint, hist, hex_vars>>

\* the creation loop of _sync_axis_pts_x from element i on
RECURSIVE create_axis_pts_x(_, _, _, _, _)
create_axis_pts_x(d, st, list, target_module, i) ==
    IF i > Len(list) THEN [db |-> d, stats |-> st]
    ELSE LET axis_pts_x == list[i]
             record_layouts == {r \in d.record_layouts : /\ r.module = target_module
                                                         /\ r.name = axis_pts_x.record_layout_name}
         IN IF axis_pts_x.record_layout_name = "" \/ record_layouts = {}
            THEN create_axis_pts_x(d, st, list, target_module, i + 1)
            ELSE create_axis_pts_x(
                    [d EXCEPT !.axis_pts_x = @ \cup {[id |-> d.seq.axis_pts_x,
                                                      record_layout |-> First(record_layouts).id,
                                                      position |-> axis_pts_x.position]},
                              !.seq.axis_pts_x = @ + 1],
                    [st EXCEPT !.axis_pts_x = @ + 1], list, target_module, i + 1)

\* A2LDataImporter._sync_axis_pts_x
sync_axis_pts_x(d, st, p, module, importer) ==
    LET target_module == IF module # 0 THEN module
                         ELSE IF importer.default_module # 0 THEN importer.default_module
                         ELSE find_existing_module(d)
    IN IF p.axis_pts_x = <<>> \/ target_module = 0 THEN [db |-> d, stats |-> st]
       ELSE create_axis_pts_x([d EXCEPT !.axis_pts_x = @ \ FileAxisPtsX(d)], st, p.axis_pts_x,
                              target_module, 1)

\* self._sync_axis_pts_x(..), then the atomic block is left and commits
SyncAxisPtsX ==
    /\ pc = "sync_axis_pts_x"
    /\ LET res == sync_axis_pts_x(db, stats, parsed, loc.module, imp)
       IN /\ db' = res.db
          /\ stats' = res.stats
    /\ pc' = "done"
    /\ UNCHANGED <<imp, parsed, loc, savepoint, hist, hex_vars>>

\* a variant without the transaction: the writes made so far stay
rollback_nothing(d, sp) == d

\* transaction.atomic().__exit__ on an exception: the store is put back to
\* what it was when the block was entered, and the exception propagates
rollback(d, sp) == sp

Rollback ==
    /\ pc = "raising"
    /\ db' = rollback(db, savepoint)
    /\ pc' = "raised"
    /\ UNCHANGED <<imp, parsed, stats, loc, savepoint, hist, hex_vars>>

\* what a caller reads of the file's Characteristic rows: the parsed fields,
\* with the conversion method by name
CharacteristicView(d) ==
    {[id |-> c.id, name |-> c.name, ecu_address |-> c.ecu_address,
      conversion_method_name |-> conversion_method_name(d, EmptyDict, c),
      long_identifier |-> c.long_identifier, characteristic_type |-> c.characteristic_type,
      record_layout |-> c.record_layout, number |-> c.number] : c \in FileCharacteristics(d)}

MeasurementView(d) ==
    {[id |-> m.id, name |-> m.name, ecu_address |-> m.ecu_address,
      conversion_method_name |-> conversion_method_name(d, EmptyDict, m),
      long_identifier |-> m.long_identifier, datatype |-> m.datatype,
      resolution |-> m.resolution] : m \in FileMeasurements(d)}

\* save returns stats, or the exception reaches the caller
returned(h) ==
    [h EXCEPT !.prev_parsed = IF pc = "done" THEN <<parsed>> ELSE <<>>,
              !.prev_view = CharacteristicView(db),
              !.prev_meas_view = MeasurementView(db),
              !.prev_imp = imp,
              !.edited = FALSE]

Return ==
    /\ pc \in {"done", "raised"}
    /\ pc' = "ready"
    /\ hist' = returned(hist)
    /\ UNCHANGED <<db, imp, parsed, stats, loc, savepoint, hex_vars>>

(***************************************************************************)
(* hex_client.py: IntelHexFile                                             *)
(* A line of the file is its first character and the hex digits after it   *)
(* (0..15 each); a blank line has neither.                                 *)
(***************************************************************************)
MaxLines == 3        \* lines of a HEX file

Hex2(b) == <<(b \div 16) % 16, b % 16>>
Hex4(w) == <<(w \div 4096) % 16, (w \div 256) % 16, (w \div 16) % 16, w % 16>>

RECURSIVE HexBytes(_)
HexBytes(bs) == IF bs = <<>> THEN <<>> ELSE Hex2(Head(bs)) \o HexBytes(Tail(bs))

\* the text ":llaaaattdd..cc"
HexLine(ll, aaaa, tt, dd, cc) ==
    [start |-> ":", payload |-> Hex2(ll) \o Hex4(aaaa) \o Hex2(tt) \o HexBytes(dd) \o Hex2(cc)]

BlankLine == [start |-> "", payload |-> <<>>]

HexLineInputs ==
    {HexLine(2, 0, 4, <<0, 1>>, 249),          \* extended linear address 0x0001
     HexLine(2, 0, 0, <<170, 187>>, 0),        \* data at offset 0: AA BB
     HexLine(2, 2, 0, <<204, 221>>, 0),        \* data at offset 2: CC DD
     HexLine(2, 1, 0, <<17, 34>>, 0),          \* data at offset 1: 11 22
     HexLine(1, 5, 0, <<238>>, 0),             \* data at offset 5: EE
     HexLine(1, 0, 0, <<51>>, 0),              \* data at offset 0: 33
     HexLine(0, 1, 0, <<>>, 255),              \* data record without bytes at offset 1
     HexLine(0, 0, 1, <<>>, 255),              \* end of file
     HexLine(1, 0, 4, <<1>>, 0),               \* extended linear address of one byte
     HexLine(2, 3, 0, <<170>>, 0),             \* two bytes declared, one present
     [start |-> "", payload |-> HexLine(0, 0, 1, <<>>, 255).payload],   \* no leading ':'
     [start |-> ":", payload |-> <<0, 0, 0, 0, 0, 0, 0, 1>>],           \* eight characters
     [start |-> ":", payload |-> <<0, 0, 0, 0, 0, 0, 0, 0, 0, 0, 0>>],  \* odd length
     BlankLine}

FetchAddresses == {0, 1, 2, 5, 65536}
FetchSizes == {0, 1, 2, 4}

\* int(text, 16)
RECURSIVE HexToInt(_)
HexToInt(ds) == IF ds = <<>> THEN 0 ELSE HexToInt(SubSeq(ds, 1, Len(ds) - 1)) * 16 + ds[Len(ds)]

\* bytes.fromhex(text)
RECURSIVE FromHex(_)
FromHex(ds) == IF Len(ds) < 2 THEN <<>> ELSE <<ds[1] * 16 + ds[2]>> \o FromHex(SubSeq(ds, 3, Len(ds)))

\* int.from_bytes(data, "big")
RECURSIVE FromBytesBig(_)
FromBytesBig(bs) == IF bs = <<>> THEN 0 ELSE FromBytesBig(SubSeq(bs, 1, Len(bs) - 1)) * 256 + bs[Len(bs)]

\* the fields _load reads from one non-blank line
LineFields(line) ==
    LET payload == line.payload IN
    [byte_count |-> HexToInt(SubSeq(payload, 1, 2)),
     offset_addr |-> HexToInt(SubSeq(payload, 3, 6)),
     record_type |-> HexToInt(SubSeq(payload, 7, 8)),
     data |-> FromHex(SubSeq(payload, 9, Len(payload) - 2)),
     checksum |-> HexToInt(SubSeq(payload, Len(payload) - 1, Len(payload)))]

\* a variant that does not compare the data length with the declared count
Malformed_without_byte_count(line) ==
    \/ line.start # ":"
    \/ Len(line.payload) < 10
    \/ Len(line.payload) % 2 # 0
    \/ LineFields(line).record_type = 4 /\ LineFields(line).byte_count # 2

\* the conditions under which _load raises HexParseError on a line
Malformed(line) ==
    \/ line.start # ":"
    \/ Len(line.payload) < 10
    \/ Len(line.payload) % 2 # 0
    \/ Len(LineFields(line).data) # LineFields(line).byte_count
    \/ LineFields(line).record_type = 4 /\ LineFields(line).byte_count # 2

\* a variant that adds the upper address without the shift
base_address_unshifted(current_upper, offset_addr) == current_upper + offset_addr

\* current_upper << 16, plus the offset
base_address(current_upper, offset_addr) == current_upper * 65536 + offset_addr

\* the loop of IntelHexFile._load from line idx on
RECURSIVE load_lines(_, _, _, _)
load_lines(lines, idx, current_upper, records) ==
    IF idx > Len(lines) THEN [error |-> FALSE, records |-> records]
    ELSE LET line == lines[idx] IN
         IF line = BlankLine THEN load_lines(lines, idx + 1, current_upper, records)
         ELSE IF Malformed(line) THEN [error |-> TRUE, records |-> records]
         ELSE LET f == LineFields(line) IN
              IF f.record_type = 4
              THEN load_lines(lines, idx + 1, FromBytesBig(f.data), records)
              ELSE IF f.record_type # 0
              THEN load_lines(lines, idx + 1, current_upper, records)
              ELSE load_lines(lines, idx + 1, current_upper,
                              Append(records,
                                     [line_no |-> idx, byte_count |-> f.byte_count,
                                      offset_addr |-> f.offset_addr, record_type |-> f.record_type,
                                      data |-> f.data, checksum |-> f.checksum,
                                      base_address |-> base_address(current_upper, f.offset_addr)]))

\* list.sort(key=base_address): stable, one insertion per element
RECURSIVE InsertByBase(_, _)
InsertByBase(sorted, r) ==
    IF sorted = <<>> THEN <<r>>
    ELSE IF sorted[Len(sorted)].base_address <= r.base_address THEN Append(sorted, r)
    ELSE Append(InsertByBase(SubSeq(sorted, 1, Len(sorted) - 1), r), sorted[Len(sorted)])

RECURSIVE sort_records(_)
sort_records(records) ==
    IF records = <<>> THEN <<>>
    ELSE InsertByBase(sort_records(SubSeq(records, 1, Len(records) - 1)), records[Len(records)])

\* HexRecord.end_address
end_address(record) == record.base_address + record.byte_count

\* the file on disk grows by one line
AppendLine(line) ==
    /\ ~hexf.loaded /\ ~hexf.error
    /\ Len(hex_lines) < MaxLines
    /\ hex_lines' = Append(hex_lines, line)
    /\ UNCHANGED <<hexf, fetch, imp_vars, aux_vars>>

\* IntelHexFile(file_path): __init__ and _load
Load ==
    /\ ~hexf.loaded /\ ~hexf.error
    /\ LET res == load_lines(hex_lines, 1, 0, <<>>) IN
         hexf' = IF res.error THEN [NoHexFile EXCEPT !.error = TRUE]
                 ELSE [loaded |-> TRUE, error |-> FALSE, records |-> sort_records(res.records),
                       record_starts |-> [i \in 1..Len(res.records) |->
                                             sort_records(res.records)[i].base_address]]
    /\ UNCHANGED <<hex_lines, fetch, imp_vars, aux_vars>>

\* bisect_right(a, x) on a sorted list
bisect_right(a, x) == Cardinality({i \in 1..Len(a) : a[i] <= x})

\* the while loop of fetch_bytes; idx counts from 1
RECURSIVE fetch_loop(_, _, _, _, _, _)
fetch_loop(records, cursor, remaining, idx, chunks, first_line) ==
    IF ~(remaining > 0 /\ idx <= Len(records))
    THEN [remaining |-> remaining, chunks |-> chunks, first_line |-> first_line]
    ELSE LET record == records[idx] IN
         IF cursor < record.base_address
         THEN [remaining |-> remaining, chunks |-> chunks, first_line |-> first_line]
         ELSE IF cursor >= end_address(record)
         THEN fetch_loop(records, cursor, remaining, idx + 1, chunks, first_line)
         ELSE LET offset == cursor - record.base_address
                  take == IF remaining < record.byte_count - offset THEN remaining
                          ELSE record.byte_count - offset
              IN fetch_loop(records, cursor + take, remaining - take,
                            IF cursor + take >= end_address(record) THEN idx + 1 ELSE idx,
                            chunks \o SubSeq(record.data, offset + 1, offset + take),
                            IF first_line = -1 THEN record.line_no ELSE first_line)

\* a variant that returns what it has collected when the records run out
fetch_bytes_partial(file, address, size) ==
    IF size <= 0 THEN [outcome |-> "ValueError", data |-> <<>>, first_line |-> -1]
    ELSE LET idx0 == bisect_right(file.record_starts, address) - 1
             idx == IF idx0 > 0 THEN idx0 ELSE 0
             res == fetch_loop(file.records, address, size, idx + 1, <<>>, -1)
         IN [outcome |-> "ok", data |-> res.chunks, first_line |-> res.first_line]

\* IntelHexFile.fetch_bytes
fetch_bytes(file, address, size) ==
    IF size <= 0 THEN [outcome |-> "ValueError", data |-> <<>>, first_line |-> -1]
    ELSE LET idx0 == bisect_right(file.record_starts, address) - 1
             idx == IF idx0 > 0 THEN idx0 ELSE 0
             res == fetch_loop(file.records, address, size, idx + 1, <<>>, -1)
         IN IF res.remaining > 0 THEN [outcome |-> "KeyError", data |-> <<>>, first_line |-> -1]
            ELSE [outcome |-> "ok", data |-> res.chunks, first_line |-> res.first_line]

FetchBytes(address, size) ==
    /\ hexf.loaded
    /\ LET res == fetch_bytes(hexf, address, size) IN
         fetch' = [called |-> TRUE, address |-> address, size |-> size, outcome |-> res.outcome,
                   data |-> res.data, first_line |-> res.first_line]
    /\ UNCHANGED <<hex_lines, hexf, imp_vars, aux_vars>>

(***************************************************************************)
(* Specifications                                                          *)
(***************************************************************************)
Updaters == {""}
ModuleIdInputs == {0, 1}

Next ==
    \/ \E module_id \in ModuleIdInputs, updater \in Updaters : Construct(module_id, updater)
    \/ \E cid \in Lowest(Ids(FileCharacteristics(db))) : OperatorEditCharacteristic(cid)
    \/ \E table \in {"characteristics", "measurements"},
          rid \in Lowest(Ids(FileCharacteristics(db))) \cup Lowest(Ids(FileMeasurements(db))),
          wp \in Ids({w \in db.work_packages : w.owner # SYSTEM}) :
          OperatorBindWorkPackage(table, rid, wp)
    \/ \E table \in {"compu_methods", "axis_descrs", "axis_pts_refs", "record_layouts", "axis_pts_x"},
          parent \in ManualParents(db) : OperatorAddRow(table, parent)
    \/ \E p \in ParsedInputs : SaveBegin(p)
    \/ SyncCompuMethods
    \/ DeleteAxisDependents
    \/ LoadExisting
    \/ PrepareCharacteristics
    \/ PrepareMeasurements
    \/ WriteCharacteristics
    \/ WriteMeasurements
    \/ SyncAxisPts
    \/ SyncAxisDescrs
    \/ SyncAxisPtsRefs
    \/ SyncRecordLayouts
    \/ SyncAxisPtsX
    \/ Rollback
    \/ Return

Spec == Init /\ [][Next]_vars

NextHex ==
    \/ \E line \in HexLineInputs : AppendLine(line)
    \/ Load
    \/ \E address \in FetchAddresses, size \in FetchSizes : FetchBytes(address, size)

SpecHex == Init /\ [][NextHex]_vars

(***************************************************************************)
(* Properties of the importer                                              *)
(***************************************************************************)
\* save has returned from a call that follows a successful call with the same
\* parse result, made through the same importer or through one with the same
\* module_id and default module, with no operator edit in between
SecondCallReturned ==
    /\ pc = "done"
    /\ hist.prev_parsed = <<parsed>>
    /\ hist.prev_imp = imp
    /\ ~hist.edited

\* C1: import idempotence. When save is called twice in succession with the
\* same parse result, through the same importer or through importers that have
\* the same module_id and default module, the second call reports zero created
\* Characteristic and Measurement rows, the file has the same rows as after the
\* first call, and every row has the same name, ECU address, conversion-method
\* name and other parsed fields as after the first call.
C1_ImportIdempotent ==
    SecondCallReturned =>
        /\ stats.characteristics = 0
        /\ stats.measurements = 0
        /\ CharacteristicView(db) = hist.prev_view
        /\ MeasurementView(db) = hist.prev_meas_view

\* a second call with the same parse result that matched stored rows of both
\* kinds and wrote them
C1_Witness ==
    /\ SecondCallReturned
    /\ loc.char_to_update # <<>>
    /\ loc.meas_to_update # <<>>
    /\ Cardinality(FileCharacteristics(db)) >= 2

\* the natural keys of the parse result: (name, normalised address,
\* conversion-method name)
ParsedCharacteristicKeys(p) ==
    {<<p.characteristics[i].name, normalize_address(p.characteristics[i].ecu_address),
       p.characteristics[i].conversion_method>> : i \in 1..Len(p.characteristics)}

ParsedMeasurementKeys(p) ==
    {<<p.measurements[i].name, normalize_address(p.measurements[i].ecu_address),
       p.measurements[i].conversion_method>> : i \in 1..Len(p.measurements)}

\* the natural key of a row stored in d
StoredKey(d, row) == <<row.name, row.ecu_address, conversion_method_name(d, EmptyDict, row)>>

\* the Characteristic rows of the file at entry of save whose key is unchanged
\* in the parse result
KeptCharacteristics ==
    {c \in FileCharacteristics(hist.entry_db) :
        StoredKey(hist.entry_db, c) \in ParsedCharacteristicKeys(parsed)}

KeptMeasurements ==
    {m \in FileMeasurements(hist.entry_db) :
        StoredKey(hist.entry_db, m) \in ParsedMeasurementKeys(parsed)}

ManualFields(c) ==
    <<c.is_key, c.edit_upper_limit, c.edit_lower_limit, c.related_test_cases, c.pass_standard, c.remark>>

\* C2: a re-import preserves manual edits. After save has returned, every
\* Characteristic row whose (name, ecu_address, conversion-method name) is
\* unchanged in the parse result still has the is_key, edit_upper_limit,
\* edit_lower_limit, related_test_cases, pass_standard and remark it had when
\* save was entered.
C2_ManualEditsPreserved ==
    pc = "done" =>
        \A c \in KeptCharacteristics :
            \E r \in db.characteristics : r.id = c.id /\ ManualFields(r) = ManualFields(c)

\* a re-import has written a row that an operator had edited before
C2_Witness ==
    /\ pc = "done"
    /\ \E c \in KeptCharacteristics :
          /\ c.is_key /\ c.remark = "r" /\ c.edit_upper_limit = 10
          /\ \E i \in 1..Len(loc.char_to_update) : loc.char_to_update[i].id = c.id

\* the work packages chosen by operators: every one but the default one
OperatorWorkPackages(d) == Ids({w \in d.work_packages : ~(w.name = UNBOUND /\ w.owner = SYSTEM)})

\* C3 (as claimed): a re-import preserves the work-package assignment. After
\* save has returned, every Characteristic and Measurement row that an operator
\* had bound to a work package other than the default one, and whose (name,
\* ecu_address, conversion-method name) is unchanged in the parse result, is
\* still bound to that work package.
C3_WorkPackagePreserved ==
    pc = "done" =>
        /\ \A c \in KeptCharacteristics :
              c.work_package \in OperatorWorkPackages(hist.entry_db) =>
                 \E r \in db.characteristics : r.id = c.id /\ r.work_package = c.work_package
        /\ \A m \in KeptMeasurements :
              m.work_package \in OperatorWorkPackages(hist.entry_db) =>
                 \E r \in db.measurements : r.id = m.id /\ r.work_package = m.work_package

\* q is p with the long identifier of exactly one Characteristic changed
OneLongIdentifierChanged(p, q, i) ==
    /\ i \in 1..Len(p.characteristics)
    /\ Len(q.characteristics) = Len(p.characteristics)
    /\ q.characteristics[i].long_identifier # p.characteristics[i].long_identifier
    /\ q = [p EXCEPT !.characteristics[i].long_identifier = q.characteristics[i].long_identifier]

\* save has returned from a re-import whose parse result differs from the one
\* of the preceding successful import in the long identifier of element i only
ReimportWithOneChange(i) ==
    /\ pc = "done"
    /\ hist.prev_parsed # <<>>
    /\ OneLongIdentifierChanged(hist.prev_parsed[1], parsed, i)

\* the stored rows that element i of the parse result was matched to
MatchedRows(i) ==
    {c \in FileCharacteristics(hist.entry_db) :
        StoredKey(hist.entry_db, c) =
            <<parsed.characteristics[i].name, normalize_address(parsed.characteristics[i].ecu_address),
              parsed.characteristics[i].conversion_method>>}

QueuedForUpdate == {loc.char_to_update[j].id : j \in 1..Len(loc.char_to_update)}

\* C4 (as claimed): update only if changed. On a re-import in which exactly
\* one parsed Characteristic differs from what is stored (its long identifier),
\* exactly that row is queued for update, and no Characteristic with unchanged
\* parsed data is queued for update or for creation.
C4_OnlyChangedRowQueued ==
    \A i \in 1..Len(parsed.characteristics) :
        ReimportWithOneChange(i) =>
            /\ QueuedForUpdate = Ids(MatchedRows(i))
            /\ loc.char_to_create = <<>>

\* C4 (amended): on such a re-import no Characteristic is queued for creation;
\* the changed Characteristic is queued for update and stored with its new long
\* identifier; every other Characteristic of the parse result is queued for
\* update too, each because its conversion-method reference points to a
\* CompuMethod row that the import deleted and recreated, and its name, address,
\* conversion-method name, long identifier, type, record layout and number are
\* stored unchanged.
C4_ChangedRowWrittenOthersRepointed ==
    \A i \in 1..Len(parsed.characteristics) :
        ReimportWithOneChange(i) =>
            /\ loc.char_to_create = <<>>
            /\ MatchedRows(i) # {}
            /\ QueuedForUpdate = Ids(KeptCharacteristics)
            /\ \A c \in KeptCharacteristics :
                  \E r \in db.characteristics :
                     /\ r.id = c.id
                     /\ r.conversion_method # c.conversion_method
                     /\ r.conversion_method \in Ids(FileCompuMethods(db)) \ Ids(hist.entry_db.compu_methods)
                     /\ IF c \in MatchedRows(i)
                        THEN r.long_identifier = parsed.characteristics[i].long_identifier
                        ELSE \E v \in CharacteristicView(db) : v.id = c.id /\ v \in hist.prev_view

\* a re-import with one changed long identifier has returned, with a second,
\* unchanged Characteristic in the parse result
C4_Witness ==
    \E i \in 1..Len(parsed.characteristics) :
        /\ ReimportWithOneChange(i)
        /\ KeptCharacteristics \ MatchedRows(i) # {}
        /\ \E r \in db.characteristics : r.long_identifier = "a2"

Tables(d) == [t \in DOMAIN d \ {"seq"} |-> d[t]]

\* C5 (as claimed): delete-then-recreate. After a successful re-import, no
\* CompuMethod, AxisDescr, AxisPtsRef, RecordLayout or AxisPtsX row scoped to the
\* file (directly, through its Characteristics or through its modules) is a row
\* that existed before the import: every such row was created by this import.
C5_RecreatedRowsOnly ==
    pc = "done" =>
        /\ Ids(FileCompuMethods(db)) \cap Ids(hist.entry_db.compu_methods) = {}
        /\ Ids(FileAxisDescrs(db)) \cap Ids(hist.entry_db.axis_descrs) = {}
        /\ Ids(FileAxisPtsRefs(db)) \cap Ids(hist.entry_db.axis_pts_refs) = {}
        /\ Ids(FileRecordLayouts(db)) \cap Ids(hist.entry_db.record_layouts) = {}
        /\ Ids(FileAxisPtsX(db)) \cap Ids(hist.entry_db.axis_pts_x) = {}

\* C6: all-or-nothing import. When save has raised, every table of the store
\* holds exactly the rows it held when save was entered.
C6_AllOrNothing ==
    pc = "raised" => Tables(db) = Tables(hist.entry_db)

\* save has raised in the Characteristic bulk write, after the CompuMethod rows
\* of the file had been deleted and recreated
C6_Witness ==
    /\ pc = "raised"
    /\ stats.compu_methods > 0
    /\ loc.char_prepared /\ loc.char_to_create # <<>>
    /\ FileCompuMethods(hist.entry_db) # {}

\* the Characteristic rows the import has created or updated
WrittenCharacteristics ==
    {c \in FileCharacteristics(db) :
        c.id \notin Ids(hist.entry_db.characteristics) \/ c.id \in QueuedForUpdate}

\* C7 (as claimed): point-count invariant of the import. After an import no
\* Characteristic row written by it holds a zero or negative number: a VALUE
\* Characteristic without a positive number is stored with number 1, and a
\* non-VALUE Characteristic without a positive number is not written.
C7_WrittenNumberPositive ==
    pc = "done" =>
        \A c \in WrittenCharacteristics :
            /\ c.number >= 1
            /\ \A i \in 1..Len(parsed.characteristics) :
                  (/\ parsed.characteristics[i].name = c.name
                   /\ parsed.characteristics[i].characteristic_type = "VALUE"
                   /\ normalize_characteristic_number(parsed.characteristics[i].number) <= 0)
                  => c.number = 1

(***************************************************************************)
(* Properties of the HEX file                                              *)
(***************************************************************************)
\* the lines of the file that are data records (type 0x00)
DataLines ==
    {k \in 1..Len(hex_lines) : hex_lines[k] # BlankLine /\ LineFields(hex_lines[k]).record_type = 0}

\* the value of the most recent type-0x04 line before line k, 0 if there is none
UpperAt(k) ==
    LET prev == {j \in 1..(k - 1) :
                    hex_lines[j] # BlankLine /\ LineFields(hex_lines[j]).record_type = 4}
    IN IF prev = {} THEN 0 ELSE FromBytesBig(LineFields(hex_lines[Max(prev)]).data)

\* the absolute address of the first byte of data line k
AbsoluteBase(k) == UpperAt(k) * 65536 + LineFields(hex_lines[k]).offset_addr

\* the bytes of the file: (absolute address, byte, line)
Cells ==
    UNION {{<<AbsoluteBase(k) + i - 1, LineFields(hex_lines[k]).data[i], k>> :
               i \in 1..LineFields(hex_lines[k]).byte_count} : k \in DataLines}

Covered(a) == \E c \in Cells : c[1] = a

\* no address is stored by two data records
NoOverlap == \A c1, c2 \in Cells : c1[1] = c2[1] => c1 = c2

Requested == fetch.address..(fetch.address + fetch.size - 1)

FetchCalled == hexf.loaded /\ fetch.called /\ fetch.size > 0

\* C8 (as claimed): HEX fetch correctness. On a loaded file whose data records
\* do not overlap, a fetch_bytes(address, size) with size > 0 whose every
\* requested address is stored by a data record returns exactly size bytes,
\* byte i being the file's byte at address + i, and the line number of the
\* record that holds the first requested address.
C8_FetchCorrect ==
    (FetchCalled /\ NoOverlap /\ \A a \in Requested : Covered(a)) =>
        /\ fetch.outcome = "ok"
        /\ Len(fetch.data) = fetch.size
        /\ \A i \in 0..(fetch.size - 1) :
              \E c \in Cells : c[1] = fetch.address + i /\ c[2] = fetch.data[i + 1]
        /\ \E c \in Cells : c[1] = fetch.address /\ c[3] = fetch.first_line

\* C9: HEX fetch gap failure. When at least one requested address is stored by
\* no data record, fetch_bytes raises KeyError and hands out no bytes; a call
\* that returns hands out exactly size bytes.
C9_GapRaisesKeyError ==
    FetchCalled =>
        /\ (\E a \in Requested : ~Covered(a)) => fetch.outcome = "KeyError" /\ fetch.data = <<>>
        /\ fetch.outcome = "ok" => Len(fetch.data) = fetch.size

\* a fetch whose first and last addresses are stored and which crosses a gap
C9_Witness ==
    /\ FetchCalled
    /\ fetch.outcome = "KeyError"
    /\ Covered(fetch.address)
    /\ Covered(fetch.address + fetch.size - 1)
    /\ \E a \in Requested : ~Covered(a)

\* C10: extended linear address composition. The loaded records are the data
\* lines of the file, and the base address of each is (U << 16) + offset, with
\* U the value of the most recent type-0x04 line before it (0 if none), also
\* after the sort; the sorted start addresses are these base addresses.
C10_BaseAddressComposition ==
    hexf.loaded =>
        /\ {hexf.records[i].line_no : i \in 1..Len(hexf.records)} = DataLines
        /\ Len(hexf.records) = Cardinality(DataLines)
        /\ \A i \in 1..Len(hexf.records) :
              /\ hexf.records[i].base_address = AbsoluteBase(hexf.records[i].line_no)
              /\ hexf.record_starts[i] = hexf.records[i].base_address

\* two data records follow a type-0x04 line and the sort has swapped them
C10_Witness ==
    /\ hexf.loaded
    /\ Len(hexf.records) = 2
    /\ hexf.records[1].line_no > hexf.records[2].line_no
    /\ hexf.records[1].base_address >= 65536

\* the text of a non-blank line breaks the Intel HEX rules
MalformedText(line) ==
    \/ line.start # ":"
    \/ Len(line.payload) < 10
    \/ Len(line.payload) % 2 = 1
    \/ /\ line.start = ":" /\ Len(line.payload) >= 10 /\ Len(line.payload) % 2 = 0
       /\ \/ (Len(line.payload) - 10) \div 2 # line.payload[1] * 16 + line.payload[2]
          \/ line.payload[7] * 16 + line.payload[8] = 4 /\ line.payload[1] * 16 + line.payload[2] # 2

MalformedLines == {k \in 1..Len(hex_lines) : hex_lines[k] # BlankLine /\ MalformedText(hex_lines[k])}

LoadAttempted == hexf.loaded \/ hexf.error

\* C11: no partial HEX load. When a non-blank line of the file is malformed,
\* wherever it stands, loading raises the parse error and no file object with
\* records exists; a file without such a line loads.
C11_NoPartialLoad ==
    LoadAttempted =>
        /\ MalformedLines # {} => hexf.error /\ ~hexf.loaded /\ hexf.records = <<>> /\ hexf.record_starts = <<>>
        /\ MalformedLines = {} => hexf.loaded /\ ~hexf.error

\* loading has failed on a malformed third line that follows a data record and
\* an end-of-file record
C11_Witness ==
    /\ hexf.error
    /\ Len(hex_lines) = 3
    /\ MalformedLines = {3}
    /\ 1 \in DataLines
    /\ hex_lines[2] = HexLine(0, 0, 1, <<>>, 255)

(***************************************************************************)
(* hex_client.py: RecordLayoutDecoder                                      *)
(* A str is the sequence of its characters.                                *)
(***************************************************************************)
LowerCase == <<"a", "b", "c", "d", "e", "f", "g", "h", "i", "j", "k", "l", "m", "n", "o", "p", "q", "r", "s", "t", "u", "v", "w", "x", "y", "z">>
UpperCase == <<"A", "B", "C", "D", "E", "F", "G", "H", "I", "J", "K", "L", "M", "N", "O", "P", "Q", "R", "S", "T", "U", "V", "W", "X", "Y", "Z">>

\* a variant that leaves the letters as they are
upper_unchanged(text) == text

\* str.upper
upper(text) ==
    [i \in 1..Len(text) |->
        IF \E j \in 1..26 : LowerCase[j] = text[i]
        THEN UpperCase[CHOOSE j \in 1..26 : LowerCase[j] = text[i]]
        ELSE text[i]]

\* keyword in text
Contains(keyword, text) ==
    \E i \in 0..(Len(text) - Len(keyword)) : SubSeq(text, i + 1, i + Len(keyword)) = keyword

\* RecordLayoutDecoder._STRUCT_MAP, in the order of the dict
STRUCT_MAP ==
    <<[keyword |-> <<"F", "L", "O", "A", "T", "6", "4">>, fmt |-> "<d"],
      [keyword |-> <<"F", "L", "O", "A", "T", "3", "2">>, fmt |-> "<f"],
      [keyword |-> <<"U", "L", "O", "N", "G">>, fmt |-> "<I"],
      [keyword |-> <<"S", "L", "O", "N", "G">>, fmt |-> "<i"],
      [keyword |-> <<"U", "W", "O", "R", "D">>, fmt |-> "<H"],
      [keyword |-> <<"S", "W", "O", "R", "D">>, fmt |-> "<h"],
      [keyword |-> <<"U", "B", "Y", "T", "E">>, fmt |-> "<B"],
      [keyword |-> <<"S", "B", "Y", "T", "E">>, fmt |-> "<b"],
      [keyword |-> <<"F", "L", "O", "A", "T", "3", "2", "_", "I", "E", "E", "E">>, fmt |-> "<f"],
      [keyword |-> <<"F", "L", "O", "A", "T", "6", "4", "_", "I", "E", "E", "E">>, fmt |-> "<d"],
      [keyword |-> <<"B", "O", "O", "L", "E", "A", "N">>, fmt |-> "<B"],
      [keyword |-> <<"S", "C", "A", "L", "A", "R", "_", "B", "O", "O", "L", "E", "A", "N">>, fmt |-> "<B"],
      [keyword |-> <<"S", "C", "A", "L", "A", "R", "_", "L", "O", "N", "G">>, fmt |-> "<i"],
      [keyword |-> <<"L", "O", "O", "K", "U", "P", "1", "D", "_", "F", "L", "O", "A", "T", "3", "2", "_", "I", "E", "E", "E">>, fmt |-> "<f"],
      [keyword |-> <<"L", "O", "O", "K", "U", "P", "1", "D", "_", "X", "_", "F", "L", "O", "A", "T", "3", "2", "_", "I", "E", "E", "E">>, fmt |-> "<f"],
      [keyword |-> <<"L", "O", "O", "K", "U", "P", "2", "D", "_", "F", "L", "O", "A", "T", "3", "2", "_", "I", "E", "E", "E">>, fmt |-> "<f"],
      [keyword |-> <<"L", "O", "O", "K", "U", "P", "2", "D", "_", "X", "_", "F", "L", "O", "A", "T", "3", "2", "_", "I", "E", "E", "E">>, fmt |-> "<f"]>>

\* sorted(items, key=len(keyword), reverse=True): stable, the longer keyword
\* first, equal lengths in the order of the dict
RECURSIVE InsertByLength(_, _)
InsertByLength(sorted, item) ==
    IF sorted = <<>> THEN <<item>>
    ELSE IF Len(sorted[Len(sorted)].keyword) >= Len(item.keyword) THEN Append(sorted, item)
    ELSE Append(InsertByLength(SubSeq(sorted, 1, Len(sorted) - 1), item), sorted[Len(sorted)])

RECURSIVE sorted_items(_)
sorted_items(items) ==
    IF items = <<>> THEN <<>>
    ELSE InsertByLength(sorted_items(SubSeq(items, 1, Len(items) - 1)), items[Len(items)])

\* RecordLayoutDecoder._resolve_struct: the format, or "" for KeyError
resolve_struct(record_layout) ==
    LET upper_layout == upper(record_layout)
        items == sorted_items(STRUCT_MAP)
        hits == {i \in 1..Len(items) : Contains(items[i].keyword, upper_layout)}
    IN IF hits = {} THEN "" ELSE items[Min(hits)].fmt

\* struct.Struct(fmt).size
struct_size(fmt) ==
    CASE fmt \in {"<B", "<b"} -> 1
      [] fmt \in {"<H", "<h"} -> 2
      [] fmt \in {"<I", "<i", "<f"} -> 4
      [] fmt = "<d" -> 8

\* Numbers wider than the integers of the checker are kept as sign and
\* magnitude, the magnitude as little-endian bytes without leading zero bytes.
RECURSIVE Strip(_)
Strip(bs) == IF bs # <<>> /\ bs[Len(bs)] = 0 THEN Strip(SubSeq(bs, 1, Len(bs) - 1)) ELSE bs

\* bs + 1 on little-endian bytes of a fixed width
RECURSIVE Increment(_)
Increment(bs) ==
    IF bs = <<>> THEN <<>>
    ELSE IF bs[1] < 255 THEN <<bs[1] + 1>> \o Tail(bs)
    ELSE <<0>> \o Increment(Tail(bs))

\* 2^(8 * Len(bs)) - bs: the magnitude of a negative two's-complement number
TwosComplement(bs) == Increment([i \in 1..Len(bs) |-> 255 - bs[i]])

\* struct.unpack(fmt, data)[0]; a float is kept as its format and bit pattern
unpack(fmt, data) ==
    CASE fmt \in {"<B", "<H", "<I"} -> [kind |-> "int", neg |-> FALSE, mag |-> Strip(data)]
      [] fmt \in {"<b", "<h", "<i"} ->
            IF data[Len(data)] >= 128
            THEN [kind |-> "int", neg |-> TRUE, mag |-> Strip(TwosComplement(data))]
            ELSE [kind |-> "int", neg |-> FALSE, mag |-> Strip(data)]
      [] fmt \in {"<f", "<d"} -> [kind |-> fmt, neg |-> FALSE, mag |-> data]

\* RecordLayoutDecoder(record_layout).decode(data)
decode(record_layout, data) ==
    IF record_layout = <<>> THEN [outcome |-> "KeyError", fmt |-> "", value |-> 0]
    ELSE LET fmt == resolve_struct(record_layout) IN
         IF fmt = "" THEN [outcome |-> "KeyError", fmt |-> "", value |-> 0]
         ELSE IF Len(data) # struct_size(fmt) THEN [outcome |-> "ValueError", fmt |-> fmt, value |-> 0]
         ELSE [outcome |-> "ok", fmt |-> fmt, value |-> unpack(fmt, data)]

\* the letters of a layout name as written, upper-cased or lower-cased
lower(text) ==
    [i \in 1..Len(text) |->
        IF \E j \in 1..26 : UpperCase[j] = text[i]
        THEN LowerCase[CHOOSE j \in 1..26 : UpperCase[j] = text[i]]
        ELSE text[i]]

Cased(c, text) == CASE c = "upper" -> upper(text) [] c = "lower" -> lower(text) [] OTHER -> text

LetterCases == {"written", "upper", "lower"}

\* Characteristic.RECORD_LAYOUT_CHOICES: prefix and base type
LayoutPrefixes == {<<"S", "c", "a", "l", "a", "r", "_">>, <<"A", "r", "r", "a", "y", "_">>, <<"M", "a", "p", "_">>}
BaseTypes == {<<"U", "B", "Y", "T", "E">>,
              <<"S", "B", "Y", "T", "E">>,
              <<"U", "W", "O", "R", "D">>,
              <<"S", "W", "O", "R", "D">>,
              <<"U", "L", "O", "N", "G">>,
              <<"S", "L", "O", "N", "G">>,
              <<"F", "L", "O", "A", "T", "3", "2", "_", "I", "E", "E", "E">>,
              <<"F", "L", "O", "A", "T", "6", "4", "_", "I", "E", "E", "E">>}

\* names without a keyword of the table
UnknownLayouts == {<<"S", "c", "a", "l", "a", "r", "_", "I", "N", "T", "6", "4">>, <<"C", "u", "s", "t", "o", "m">>, <<"L", "O", "N", "G">>, <<>>}

LayoutInputs ==
    {Cased(c, pre \o b) : c \in LetterCases, pre \in LayoutPrefixes, b \in BaseTypes}
    \cup {Cased(c, STRUCT_MAP[i].keyword) : c \in LetterCases, i \in 1..Len(STRUCT_MAP)}
    \cup UnknownLayouts

DecodeInputs ==
    {<<255>>, <<1>>, <<0, 128>>, <<52, 18>>, <<255, 255, 255, 255>>, <<0, 0, 128, 63>>,
     <<0, 0, 0, 0, 0, 0, 240, 63>>}

\* decoder = RecordLayoutDecoder(record_layout); decoder.decode(data)
Decode(record_layout, data) ==
    /\ ~dec.called
    /\ LET res == decode(record_layout, data) IN
         dec' = [called |-> TRUE, layout |-> record_layout, data |-> data, outcome |-> res.outcome,
                 fmt |-> res.fmt, value |-> res.value]
    /\ UNCHANGED <<imp_vars, hex_lines, hexf, fetch, norm, look, batch, sheet, new_vars>>

NextDecode == \E record_layout \in LayoutInputs, data \in DecodeInputs : Decode(record_layout, data)

SpecDecode == Init /\ [][NextDecode]_vars

(***************************************************************************)
(* Properties of the decoder                                               *)
(***************************************************************************)
\* element size and interpretation of a base type
BaseSize(b) ==
    CASE b[1] \in {"U", "S"} /\ b[2] = "B" -> 1
      [] b[1] \in {"U", "S"} /\ b[2] = "W" -> 2
      [] b[1] \in {"U", "S"} /\ b[2] = "L" -> 4
      [] SubSeq(b, 1, 7) = <<"F", "L", "O", "A", "T", "3", "2">> -> 4
      [] SubSeq(b, 1, 7) = <<"F", "L", "O", "A", "T", "6", "4">> -> 8

BaseKind(b) == CASE b[1] = "U" -> "unsigned" [] b[1] = "S" -> "signed" [] OTHER -> "float"

FormatKind(fmt) ==
    CASE fmt \in {"<B", "<H", "<I"} -> "unsigned"
      [] fmt \in {"<b", "<h", "<i"} -> "signed"
      [] fmt \in {"<f", "<d"} -> "float"
      [] OTHER -> "none"

\* C12: record-layout resolution. A Scalar_, Array_ or Map_ name over one of
\* the eight base types, in any letter case, resolves to a format with the
\* element size and the signed / unsigned / float interpretation of its base
\* type, and decodes the bytes to the value the bare base keyword decodes them
\* to; every bare keyword of the table resolves to its own format; a name
\* without a keyword of the table raises KeyError.
C12_LayoutResolution ==
    dec.called =>
        /\ \A c \in LetterCases, pre \in LayoutPrefixes, b \in BaseTypes :
              dec.layout = Cased(c, pre \o b) =>
                 /\ dec.outcome \in {"ok", "ValueError"}
                 /\ struct_size(dec.fmt) = BaseSize(b)
                 /\ FormatKind(dec.fmt) = BaseKind(b)
                 /\ dec.outcome = "ok" <=> Len(dec.data) = BaseSize(b)
                 /\ dec.outcome = decode(b, dec.data).outcome
                 /\ dec.value = decode(b, dec.data).value
        /\ \A c \in LetterCases, i \in 1..Len(STRUCT_MAP) :
              dec.layout = Cased(c, STRUCT_MAP[i].keyword) => dec.fmt = STRUCT_MAP[i].fmt
        /\ (\A i \in 1..Len(STRUCT_MAP) : ~Contains(STRUCT_MAP[i].keyword, upper(dec.layout)))
              => dec.outcome = "KeyError"

\* a lower-case prefixed name of a signed type has decoded a negative value
C12_Witness ==
    /\ dec.called
    /\ dec.layout = lower(<<"A", "r", "r", "a", "y", "_", "S", "W", "O", "R", "D">>)
    /\ dec.outcome = "ok"
    /\ dec.value = [kind |-> "int", neg |-> TRUE, mag |-> <<0, 128>>]

(***************************************************************************)
(* hexparser/utils/hex_client.py : _normalize_characteristic_number        *)
(* (SpecNormalize).  The value is None, an int, a float or a string; the   *)
(* branches for other objects are not reached by these inputs.             *)
(***************************************************************************)
DigitChars == <<"0", "1", "2", "3", "4", "5", "6", "7", "8", "9">>
IsDigit(c) == \E i \in 1..10 : DigitChars[i] = c
DigitOf(c) == (CHOOSE i \in 1..10 : DigitChars[i] = c) - 1

\* str.strip() on a text whose white space is the blank and the line feed
WhiteSpace == {" ", "\n"}

RECURSIVE lstrip(_)
lstrip(t) == IF t # <<>> /\ t[1] \in WhiteSpace THEN lstrip(Tail(t)) ELSE t

RECURSIVE rstrip(_)
rstrip(t) == IF t # <<>> /\ t[Len(t)] \in WhiteSpace THEN rstrip(SubSeq(t, 1, Len(t) - 1)) ELSE t

strip(t) == rstrip(lstrip(t))

\* int(float(stripped)) for plain decimal notation, [sign] digits [. digits]:
\* float() raises ValueError for any other text made of these characters and
\* of letters other than an exponent, inf or nan; int() truncates towards zero
int_float(stripped) ==
    LET signed == stripped # <<>> /\ stripped[1] \in {"+", "-"}
        body == IF signed THEN Tail(stripped) ELSE stripped
        dots == {i \in 1..Len(body) : body[i] = "."}
        whole == IF dots = {} THEN body ELSE SubSeq(body, 1, Min(dots) - 1)
        fraction == IF dots = {} THEN <<>> ELSE SubSeq(body, Min(dots) + 1, Len(body))
        digits == whole \o fraction
    IN IF digits = <<>> \/ \E i \in 1..Len(digits) : ~IsDigit(digits[i])
       THEN [outcome |-> "ValueError", result |-> 0]
       ELSE LET n == DigitsValue([i \in 1..Len(whole) |-> DigitOf(whole[i])], 10)
            IN [outcome |-> "ok", result |-> IF signed /\ stripped[1] = "-" THEN 0 - n ELSE n]

\* a variant that returns the count of a VALUE as it was given
checked_unclamped(result, characteristic_type) ==
    IF characteristic_type = "VALUE" THEN [outcome |-> "ok", result |-> result]
    ELSE IF result <= 0 THEN [outcome |-> "ValueError", result |-> 0]
    ELSE [outcome |-> "ok", result |-> result]

\* the end of every branch: max(1, result) if result >= 0 else 1 for a VALUE,
\* ValueError for result <= 0 otherwise
checked(result, characteristic_type) ==
    IF characteristic_type = "VALUE"
    THEN [outcome |-> "ok", result |-> IF result >= 0 THEN (IF result > 1 THEN result ELSE 1) ELSE 1]
    ELSE IF result <= 0 THEN [outcome |-> "ValueError", result |-> 0]
    ELSE [outcome |-> "ok", result |-> result]

\* _normalize_characteristic_number(value, characteristic_type)
strict_normalize_characteristic_number(value, characteristic_type) ==
    CASE value.tag = "none" ->
            IF characteristic_type = "VALUE" THEN [outcome |-> "ok", result |-> 1]
            ELSE [outcome |-> "ValueError", result |-> 0]
      [] value.tag \in {"int", "float"} -> checked(value.val, characteristic_type)
      [] value.tag = "str" ->
            LET stripped == strip(value.text) IN
            IF stripped = <<>>
            THEN IF characteristic_type = "VALUE" THEN [outcome |-> "ok", result |-> 1]
                 ELSE [outcome |-> "ValueError", result |-> 0]
            ELSE LET r == int_float(stripped) IN
                 IF r.outcome # "ok" THEN [outcome |-> "ValueError", result |-> 0]
                 ELSE checked(r.result, characteristic_type)

\* the number strings tried, each with what it denotes
NumberStrings ==
    {[text |-> <<>>, class |-> "empty", n |-> 0],
     [text |-> <<" ", " ">>, class |-> "empty", n |-> 0],
     [text |-> <<"0">>, class |-> "zero", n |-> 0],
     [text |-> <<"0", ".", "0">>, class |-> "zero", n |-> 0],
     [text |-> <<"5">>, class |-> "positive", n |-> 5],
     [text |-> <<" ", "7", " ">>, class |-> "positive", n |-> 7],
     [text |-> <<"+", "4">>, class |-> "positive", n |-> 4],
     [text |-> <<"1", "2", ".", "0">>, class |-> "positive", n |-> 12],
     [text |-> <<"3", ".">>, class |-> "positive", n |-> 3],
     [text |-> <<"-", "2">>, class |-> "negative", n |-> 0],
     [text |-> <<"-", "0", ".", "5">>, class |-> "negative", n |-> 0],
     [text |-> <<"2", ".", "9">>, class |-> "fractional", n |-> 0],
     [text |-> <<".", "5">>, class |-> "fractional", n |-> 0],
     [text |-> <<"a", "b", "c">>, class |-> "unparseable", n |-> 0],
     [text |-> <<"1", "x">>, class |-> "unparseable", n |-> 0],
     [text |-> <<"1", " ", "2">>, class |-> "unparseable", n |-> 0],
     [text |-> <<".">>, class |-> "unparseable", n |-> 0],
     [text |-> <<"-">>, class |-> "unparseable", n |-> 0],
     [text |-> <<"1", ".", "2", ".", "3">>, class |-> "unparseable", n |-> 0]}

NumberInputs ==
    {NumNone} \cup {NumInt(n) : n \in {-3, -1, 0, 1, 2, 3, 280}}
        \cup {NumFloat(TRUE, 2, TRUE), NumFloat(TRUE, 0, TRUE), NumFloat(TRUE, 1, FALSE), NumFloat(FALSE, 0, FALSE),
              NumFloat(FALSE, 0, TRUE), NumFloat(FALSE, 1, FALSE), NumFloat(FALSE, 2, TRUE), NumFloat(FALSE, 6, FALSE)}
        \cup {NumStr(c.text) : c \in NumberStrings}

CharacteristicTypes == {"VALUE", "VAL_BLK", "CURVE", "MAP"}

\* one call of _normalize_characteristic_number
Normalize(value, characteristic_type) ==
    /\ ~norm.called
    /\ LET res == strict_normalize_characteristic_number(value, characteristic_type) IN
         norm' = [called |-> TRUE, value |-> value, characteristic_type |-> characteristic_type,
                  outcome |-> res.outcome, result |-> res.result]
    /\ UNCHANGED <<imp_vars, hex_lines, hexf, fetch, dec, look, batch, sheet, new_vars>>

NextNormalize == \E value \in NumberInputs, characteristic_type \in CharacteristicTypes : Normalize(value, characteristic_type)

SpecNormalize == Init /\ [][NextNormalize]_vars

(***************************************************************************)
(* Properties of the point-count normalisation                             *)
(***************************************************************************)
\* what the value handed in denotes: absent, empty, unparseable, zero,
\* negative, positive (a whole number n) or fractional (positive, not whole)
NumberClass(v) ==
    CASE v.tag = "none" -> [class |-> "absent", n |-> 0]
      [] v.tag = "int" ->
            [class |-> IF v.val = 0 THEN "zero" ELSE IF v.val < 0 THEN "negative" ELSE "positive", n |-> v.val]
      [] v.tag = "float" ->
            [class |-> IF v.val = 0 /\ ~v.frac THEN "zero" ELSE IF v.neg THEN "negative"
                       ELSE IF v.frac THEN "fractional" ELSE "positive", n |-> v.val]
      [] v.tag = "str" ->
            LET c == CHOOSE c \in NumberStrings : c.text = v.text IN [class |-> c.class, n |-> c.n]

\* C16: for the type VALUE a number that is absent, empty, 0 or negative
\* normalises to 1 and a positive whole number n to n; for every other type
\* a number that is absent, empty, unparseable, 0 or negative raises
\* ValueError; no call returns a value below 1.
C16_StrictNormalization ==
    norm.called =>
        LET c == NumberClass(norm.value) IN
        /\ norm.characteristic_type = "VALUE" /\ c.class \in {"absent", "empty", "zero", "negative"}
              => norm.outcome = "ok" /\ norm.result = 1
        /\ norm.characteristic_type = "VALUE" /\ c.class = "positive"
              => norm.outcome = "ok" /\ norm.result = c.n
        /\ norm.characteristic_type # "VALUE" /\ c.class \in {"absent", "empty", "unparseable", "zero", "negative"}
              => norm.outcome = "ValueError"
        /\ norm.outcome = "ok" => norm.result >= 1

\* a VALUE stored with the number 0 is read as one element, and a MAP with
\* the number 0 is refused
C16_Witness ==
    /\ norm.called /\ norm.value = NumInt(0)
    /\ \/ norm.characteristic_type = "VALUE" /\ norm.outcome = "ok" /\ norm.result = 1
       \/ norm.characteristic_type = "MAP" /\ norm.outcome = "ValueError"

(***************************************************************************)
(* hexparser/utils/hex_client.py : the HEX lookup paths (SpecLookup)       *)
(***************************************************************************)
\* an int as sign and little-endian magnitude
RECURSIVE ToBytes(_)
ToBytes(n) == IF n = 0 THEN <<>> ELSE <<n % 256>> \o ToBytes(n \div 256)

RECURSIVE FromBytesLittle(_)
FromBytesLittle(bs) == IF bs = <<>> THEN 0 ELSE bs[1] + 256 * FromBytesLittle(Tail(bs))

AddrOf(n) == [neg |-> n < 0, mag |-> ToBytes(IF n < 0 THEN 0 - n ELSE n)]
Wide(ng, bs) == [neg |-> ng, mag |-> bs]

\* the low w bytes of a magnitude
LowBytes(bs, w) == [i \in 1..w |-> IF i <= Len(bs) THEN bs[i] ELSE 0]

\* address_int & 0xFFFFFFFFFFFFFFFF
and_mask64(address_int) ==
    IF address_int.neg THEN [neg |-> FALSE, mag |-> Strip(TwosComplement(LowBytes(address_int.mag, 8)))]
    ELSE [neg |-> FALSE, mag |-> Strip(LowBytes(address_int.mag, 8))]

\* a variant that hands the signed address on as it is
unsigned_address_signed(address_int) == address_int

\* unsigned_address = address_int & 0xFFFFFFFFFFFFFFFF if address_int < 0 else address_int
unsigned_address(address_int) == IF address_int.neg THEN and_mask64(address_int) ELSE address_int

HexChars == <<"0", "1", "2", "3", "4", "5", "6", "7", "8", "9", "A", "B", "C", "D", "E", "F">>

\* f"{n:X}" for n >= 0
format_X(mag) ==
    IF mag = <<>> THEN <<"0">>
    ELSE LET top == mag[Len(mag)]
             rest == [k \in 1..(2 * (Len(mag) - 1)) |->
                         LET b == mag[Len(mag) - ((k + 1) \div 2)]
                         IN HexChars[(IF k % 2 = 1 THEN b \div 16 ELSE b % 16) + 1]]
         IN (IF top >= 16 THEN <<HexChars[(top \div 16) + 1], HexChars[(top % 16) + 1]>>
             ELSE <<HexChars[top + 1]>>) \o rest

\* _format_address(ecu_address) for an address that is not None
format_address(ecu_address) ==
    [address |-> IF ecu_address.neg THEN <<"-", "0", "x">> \o format_X(ecu_address.mag)
                 ELSE <<"0", "x">> \o format_X(ecu_address.mag),
     address_decimal |-> ecu_address]

\* the HEX dump the lookups read: four data records below 0x10000, one
\* extended linear address record, one data record at 0x10000
DumpLines ==
    <<HexLine(4, 0, 0, <<255, 255, 255, 255>>, 0),
      HexLine(16, 16, 0, <<1, 0, 2, 0, 3, 0, 4, 0, 5, 0, 6, 0, 7, 0, 8, 0>>, 0),
      HexLine(8, 32, 0, <<10, 20, 30, 40, 50, 60, 70, 80>>, 0),
      HexLine(4, 64, 0, <<0, 0, 128, 63>>, 0),
      HexLine(2, 0, 4, <<0, 1>>, 0),
      HexLine(2, 0, 0, <<170, 187>>, 0),
      HexLine(0, 0, 1, <<>>, 255)>>

\* IntelHexFile(hex_path) for a well-formed file
IntelHexFile(lines) ==
    LET res == load_lines(lines, 1, 0, <<>>) IN
    [loaded |-> TRUE, error |-> FALSE, records |-> sort_records(res.records),
     record_starts |-> [i \in 1..Len(res.records) |-> sort_records(res.records)[i].base_address]]

DumpFile == IntelHexFile(DumpLines)

\* IntelHexFile.fetch_bytes for an address of any width.  Every record of
\* DumpFile ends below 2^24: a wider address is past the last record and a
\* wider negative one before the first, and the loop ends with bytes missing.
fetch_bytes_wide(file, address, size) ==
    IF size <= 0 THEN [outcome |-> "ValueError", data |-> <<>>, first_line |-> -1]
    ELSE IF Len(address.mag) > 3 THEN [outcome |-> "KeyError", data |-> <<>>, first_line |-> -1]
    ELSE fetch_bytes(file, IF address.neg THEN 0 - FromBytesLittle(address.mag) ELSE FromBytesLittle(address.mag), size)

\* RecordLayoutDecoder(record_layout): the struct format, or "" for KeyError
RecordLayoutDecoder(record_layout) == IF record_layout = <<>> THEN "" ELSE resolve_struct(record_layout)

\* RecordLayoutDecoder.decode_many(data, count)
decode_many(fmt, data, count) ==
    IF Len(data) # struct_size(fmt) * count THEN [outcome |-> "ValueError", values |-> <<>>]
    ELSE [outcome |-> "ok",
          values |-> [i \in 1..count |-> unpack(fmt, SubSeq(data, (i - 1) * struct_size(fmt) + 1, i * struct_size(fmt)))]]

\* bytes.hex().upper() and bytes.fromhex()
hex_upper(bs) ==
    [k \in 1..(2 * Len(bs)) |->
        LET b == bs[(k + 1) \div 2] IN HexChars[(IF k % 2 = 1 THEN b \div 16 ELSE b % 16) + 1]]

HexDigitOf(c) == (CHOOSE i \in 1..16 : HexChars[i] = c) - 1

fromhex(text) == [i \in 1..(Len(text) \div 2) |-> HexDigitOf(text[2 * i - 1]) * 16 + HexDigitOf(text[2 * i])]

\* a dict of _fetch_characteristics_from_db
CharacteristicDict(n, layout, ty, addr, num) ==
    [name |-> n, record_layout |-> layout, characteristic_type |-> ty, ecu_address |-> addr, number |-> num]

\* a dict of _fetch_curve_axis_definition / _get_axis_pts_from_descr, or None
AxisDict(n, addr, layout, points) ==
    [none |-> FALSE, name |-> n, ecu_address |-> addr, record_layout |-> layout, max_axis_points |-> points]

NoAxis == [none |-> TRUE, name |-> <<>>, ecu_address |-> AddrOf(0), record_layout |-> <<>>, max_axis_points |-> 0]

\* what a lookup hands back when it has no result
Nothing(outcome, fetches) == [outcome |-> outcome, fetches |-> fetches, result |-> <<>>]

\* binds a value to a name once: Bind(e, LAMBDA x : b) is b with e for x
Bind(value, F(_)) == F(value)

\* the body of the loop of parse_hex_characteristics for one dict
parse_hex_characteristic(characteristic, hex_file) ==
    IF characteristic.name = <<>> THEN Nothing("skipped", <<>>)
    ELSE IF characteristic.ecu_address = AddrOf(0) THEN Nothing("skipped", <<>>)
    ELSE Bind(RecordLayoutDecoder(characteristic.record_layout), LAMBDA fmt :
         IF fmt = "" THEN Nothing("skipped", <<>>)
         ELSE Bind(strict_normalize_characteristic_number(characteristic.number, characteristic.characteristic_type),
                   LAMBDA element_count :
              IF element_count.outcome # "ok" THEN Nothing("skipped", <<>>)
              ELSE Bind([address |-> unsigned_address(characteristic.ecu_address),
                         size |-> struct_size(fmt) * element_count.result], LAMBDA call :
                   Bind(fetch_bytes_wide(hex_file, call.address, call.size), LAMBDA got :
                   IF got.outcome = "KeyError" THEN Nothing("skipped", <<call>>)
                   ELSE Bind(decode_many(fmt, got.data, element_count.result).values, LAMBDA decoded_values :
                        Bind(format_address(characteristic.ecu_address), LAMBDA formatted :
                        [outcome |-> "ok", fetches |-> <<call>>,
                         result |-> [name |-> characteristic.name, record_layout |-> characteristic.record_layout,
                                     characteristic_type |-> characteristic.characteristic_type,
                                     address |-> formatted.address, address_decimal |-> formatted.address_decimal,
                                     line_no |-> got.first_line, byte_count |-> Len(got.data),
                                     raw_bytes |-> hex_upper(got.data),
                                     value |-> IF Len(decoded_values) = 1 THEN decoded_values[1]
                                               ELSE decoded_values]]))))))

\* parse_hex_characteristics over the dicts found: the list of results
RECURSIVE parse_hex_characteristics(_, _)
parse_hex_characteristics(characteristics, hex_file) ==
    IF characteristics = <<>> THEN [fetches |-> <<>>, results |-> <<>>, asked |-> <<>>]
    ELSE Bind(parse_hex_characteristic(Head(characteristics), hex_file), LAMBDA one :
         Bind(parse_hex_characteristics(Tail(characteristics), hex_file), LAMBDA more :
         [fetches |-> one.fetches \o more.fetches,
          results |-> (IF one.outcome = "ok" THEN <<one.result>> ELSE <<>>) \o more.results,
          asked |-> (IF one.fetches # <<>> THEN <<Head(characteristics).ecu_address>> ELSE <<>>) \o more.asked]))

\* type_map of parse_hex_address_to_value
TYPE_MAP ==
    {[key |-> <<"F", "L", "O", "A", "T", "3", "2">>, fmt |-> "<f"],
     [key |-> <<"F", "L", "O", "A", "T", "6", "4">>, fmt |-> "<d"],
     [key |-> <<"U", "L", "O", "N", "G">>, fmt |-> "<I"],
     [key |-> <<"S", "L", "O", "N", "G">>, fmt |-> "<i"],
     [key |-> <<"U", "W", "O", "R", "D">>, fmt |-> "<H"],
     [key |-> <<"S", "W", "O", "R", "D">>, fmt |-> "<h"],
     [key |-> <<"U", "B", "Y", "T", "E">>, fmt |-> "<B"],
     [key |-> <<"S", "B", "Y", "T", "E">>, fmt |-> "<b"],
     [key |-> <<"S", "C", "A", "L", "A", "R", "_", "U", "B", "Y", "T", "E">>, fmt |-> "<B"],
     [key |-> <<"S", "C", "A", "L", "A", "R", "_", "S", "B", "Y", "T", "E">>, fmt |-> "<b"],
     [key |-> <<"S", "C", "A", "L", "A", "R", "_", "U", "W", "O", "R", "D">>, fmt |-> "<H"],
     [key |-> <<"S", "C", "A", "L", "A", "R", "_", "S", "W", "O", "R", "D">>, fmt |-> "<h"],
     [key |-> <<"S", "C", "A", "L", "A", "R", "_", "U", "L", "O", "N", "G">>, fmt |-> "<I"],
     [key |-> <<"S", "C", "A", "L", "A", "R", "_", "S", "L", "O", "N", "G">>, fmt |-> "<i"],
     [key |-> <<"S", "C", "A", "L", "A", "R", "_", "F", "L", "O", "A", "T", "3", "2", "_", "I", "E", "E", "E">>, fmt |-> "<f"],
     [key |-> <<"S", "C", "A", "L", "A", "R", "_", "F", "L", "O", "A", "T", "6", "4", "_", "I", "E", "E", "E">>, fmt |-> "<d"],
     [key |-> <<"A", "R", "R", "A", "Y", "_", "U", "B", "Y", "T", "E">>, fmt |-> "<B"],
     [key |-> <<"A", "R", "R", "A", "Y", "_", "S", "B", "Y", "T", "E">>, fmt |-> "<b"],
     [key |-> <<"A", "R", "R", "A", "Y", "_", "U", "W", "O", "R", "D">>, fmt |-> "<H"],
     [key |-> <<"A", "R", "R", "A", "Y", "_", "S", "W", "O", "R", "D">>, fmt |-> "<h"],
     [key |-> <<"A", "R", "R", "A", "Y", "_", "U", "L", "O", "N", "G">>, fmt |-> "<I"],
     [key |-> <<"A", "R", "R", "A", "Y", "_", "S", "L", "O", "N", "G">>, fmt |-> "<i"],
     [key |-> <<"A", "R", "R", "A", "Y", "_", "F", "L", "O", "A", "T", "3", "2", "_", "I", "E", "E", "E">>, fmt |-> "<f"],
     [key |-> <<"A", "R", "R", "A", "Y", "_", "F", "L", "O", "A", "T", "6", "4", "_", "I", "E", "E", "E">>, fmt |-> "<d"],
     [key |-> <<"M", "A", "P", "_", "F", "L", "O", "A", "T", "3", "2", "_", "I", "E", "E", "E">>, fmt |-> "<f"],
     [key |-> <<"M", "A", "P", "_", "U", "B", "Y", "T", "E">>, fmt |-> "<B"],
     [key |-> <<"M", "A", "P", "_", "S", "B", "Y", "T", "E">>, fmt |-> "<b"],
     [key |-> <<"M", "A", "P", "_", "U", "W", "O", "R", "D">>, fmt |-> "<H"],
     [key |-> <<"M", "A", "P", "_", "S", "W", "O", "R", "D">>, fmt |-> "<h"],
     [key |-> <<"F", "L", "O", "A", "T", "3", "2", "_", "I", "E", "E", "E">>, fmt |-> "<f"],
     [key |-> <<"F", "L", "O", "A", "T", "6", "4", "_", "I", "E", "E", "E">>, fmt |-> "<d"]}

\* parse_hex_address_to_value with ecu_address an int and the default byte order
parse_hex_address_to_value(ecu_address, data_type, hex_file) ==
    Bind({e \in TYPE_MAP : e.key = upper(data_type)}, LAMBDA entries :
    IF entries = {} THEN Nothing("ValueError", <<>>)
    ELSE Bind((CHOOSE e \in entries : TRUE).fmt, LAMBDA struct_format :
         Bind([address |-> unsigned_address(ecu_address), size |-> struct_size(struct_format)], LAMBDA call :
         Bind(fetch_bytes_wide(hex_file, call.address, call.size), LAMBDA got :
         IF got.outcome # "ok" THEN Nothing(got.outcome, <<call>>)
         ELSE [outcome |-> "ok", fetches |-> <<call>>, result |-> unpack(struct_format, got.data)]))))

\* parse_hex_val_blk with ecu_address an int and the default byte order
parse_hex_val_blk(ecu_address, record_layout, element_count, hex_file) ==
    Bind(RecordLayoutDecoder(record_layout), LAMBDA fmt :
    IF fmt = "" THEN Nothing("ValueError", <<>>)
    ELSE IF element_count <= 0 THEN Nothing("ValueError", <<>>)
    ELSE Bind([address |-> unsigned_address(ecu_address), size |-> struct_size(fmt) * element_count], LAMBDA call :
         Bind(fetch_bytes_wide(hex_file, call.address, call.size), LAMBDA got :
         IF got.outcome # "ok" THEN Nothing(got.outcome, <<call>>)
         ELSE [outcome |-> "ok", fetches |-> <<call>>, result |-> decode_many(fmt, got.data, element_count).values])))

\* _read_values(address, decoder, count) of parse_hex_curve and parse_hex_map
read_values(hex_file, address, fmt, count) ==
    Bind([address |-> unsigned_address(address), size |-> struct_size(fmt) * count], LAMBDA call :
    Bind(fetch_bytes_wide(hex_file, call.address, call.size), LAMBDA got :
    [outcome |-> got.outcome, call |-> call, line_no |-> got.first_line, raw_bytes |-> got.data,
     values |-> IF got.outcome = "ok" THEN decode_many(fmt, got.data, count).values ELSE <<>>]))

\* one axis of a result dict
AxisResult(n, address, layout, read, values) ==
    [name |-> n, address |-> format_address(address).address,
     address_decimal |-> format_address(address).address_decimal, record_layout |-> layout,
     line_no |-> read.line_no, byte_count |-> Len(read.raw_bytes), raw_bytes |-> hex_upper(read.raw_bytes),
     values |-> values]

\* a variant that keeps every value read
truncate_none(values, point_count) == values

\* values[:point_count]
truncate(values, point_count) == SubSeq(values, 1, point_count)

\* the end of parse_hex_curve, from point_count on
curve_result(characteristic, axis_definition, x, y) ==
    Bind(IF Len(x.values) < Len(y.values) THEN Len(x.values) ELSE Len(y.values), LAMBDA point_count :
    IF point_count = 0 THEN Nothing("None", <<y.call, x.call>>)
    ELSE Bind(IF Len(x.values) # Len(y.values) THEN truncate(x.values, point_count) ELSE x.values, LAMBDA x_values :
         Bind(IF Len(x.values) # Len(y.values) THEN truncate(y.values, point_count) ELSE y.values, LAMBDA y_values :
         [outcome |-> "ok", fetches |-> <<y.call, x.call>>,
          result |-> [name |-> characteristic.name, characteristic_type |-> "CURVE",
                      point_count |-> point_count,
                      x_axis |-> AxisResult(axis_definition.name, axis_definition.ecu_address,
                                            axis_definition.record_layout, x, x_values),
                      y_axis |-> AxisResult(characteristic.name, characteristic.ecu_address,
                                            characteristic.record_layout, y, y_values),
                      data_points |-> [i \in 1..point_count |-> <<x_values[i], y_values[i]>>]]])))

\* parse_hex_curve for the Characteristic found and its axis definition
parse_hex_curve(characteristic, axis_definition, hex_file) ==
    IF characteristic.characteristic_type # "CURVE" THEN Nothing("None", <<>>)
    ELSE IF axis_definition.none THEN Nothing("None", <<>>)
    ELSE Bind(RecordLayoutDecoder(characteristic.record_layout), LAMBDA y_fmt :
         Bind(RecordLayoutDecoder(axis_definition.record_layout), LAMBDA x_fmt :
         IF y_fmt = "" \/ x_fmt = "" THEN Nothing("None", <<>>)
         ELSE Bind(strict_normalize_characteristic_number(characteristic.number, "CURVE"), LAMBDA y_count :
              IF y_count.outcome # "ok" THEN Nothing("ValueError", <<>>)
              ELSE Bind(IF axis_definition.max_axis_points # 0 THEN axis_definition.max_axis_points
                        ELSE y_count.result, LAMBDA x_count :
                   Bind(read_values(hex_file, characteristic.ecu_address, y_fmt, y_count.result), LAMBDA y :
                   IF y.outcome # "ok" THEN Nothing(IF y.outcome = "KeyError" THEN "None" ELSE y.outcome, <<y.call>>)
                   ELSE Bind(read_values(hex_file, axis_definition.ecu_address, x_fmt, x_count), LAMBDA x :
                        IF x.outcome # "ok"
                        THEN Nothing(IF x.outcome = "KeyError" THEN "None" ELSE x.outcome, <<y.call, x.call>>)
                        ELSE curve_result(characteristic, axis_definition, x, y)))))))

\* a variant that cuts the flat list column by column
matrix_by_column(z_values, x_count, y_count) ==
    [y_idx \in 1..y_count |-> [x_idx \in 1..x_count |-> z_values[(x_idx - 1) * y_count + y_idx]]]

\* [z_values[y_idx * x_count:(y_idx + 1) * x_count] for y_idx in range(y_count)]
matrix_of(z_values, x_count, y_count) ==
    [y_idx \in 1..y_count |-> SubSeq(z_values, (y_idx - 1) * x_count + 1, y_idx * x_count)]

\* the end of parse_hex_map, from the matrix on
map_result(characteristic, x_axis_def, y_axis_def, x, y, z) ==
    [outcome |-> "ok", fetches |-> <<x.call, y.call, z.call>>,
     result |-> [name |-> characteristic.name, characteristic_type |-> "MAP",
                 x_count |-> x_axis_def.max_axis_points, y_count |-> y_axis_def.max_axis_points,
                 x_axis |-> AxisResult(x_axis_def.name, x_axis_def.ecu_address, x_axis_def.record_layout, x, x.values),
                 y_axis |-> AxisResult(y_axis_def.name, y_axis_def.ecu_address, y_axis_def.record_layout, y, y.values),
                 z_data |-> [address |-> format_address(characteristic.ecu_address).address,
                             address_decimal |-> format_address(characteristic.ecu_address).address_decimal,
                             record_layout |-> characteristic.record_layout, line_no |-> z.line_no,
                             byte_count |-> Len(z.raw_bytes), raw_bytes |-> hex_upper(z.raw_bytes),
                             matrix |-> matrix_of(z.values, x_axis_def.max_axis_points, y_axis_def.max_axis_points)]]]

\* the reads of parse_hex_map: X axis, Y axis, then x_count * y_count Z elements
map_reads(characteristic, x_axis_def, y_axis_def, z_fmt, x_fmt, y_fmt, hex_file) ==
    Bind(read_values(hex_file, x_axis_def.ecu_address, x_fmt, x_axis_def.max_axis_points), LAMBDA x :
    IF x.outcome # "ok" THEN Nothing(IF x.outcome = "KeyError" THEN "None" ELSE x.outcome, <<x.call>>)
    ELSE Bind(read_values(hex_file, y_axis_def.ecu_address, y_fmt, y_axis_def.max_axis_points), LAMBDA y :
         IF y.outcome # "ok" THEN Nothing(IF y.outcome = "KeyError" THEN "None" ELSE y.outcome, <<x.call, y.call>>)
         ELSE Bind(read_values(hex_file, characteristic.ecu_address, z_fmt,
                               x_axis_def.max_axis_points * y_axis_def.max_axis_points), LAMBDA z :
              IF z.outcome # "ok"
              THEN Nothing(IF z.outcome = "KeyError" THEN "None" ELSE z.outcome, <<x.call, y.call, z.call>>)
              ELSE map_result(characteristic, x_axis_def, y_axis_def, x, y, z))))

\* parse_hex_map for the Characteristic found and its two axis definitions
parse_hex_map(characteristic, x_axis_def, y_axis_def, hex_file) ==
    IF characteristic.characteristic_type # "MAP" THEN Nothing("None", <<>>)
    ELSE IF x_axis_def.none \/ y_axis_def.none THEN Nothing("None", <<>>)
    ELSE Bind(RecordLayoutDecoder(characteristic.record_layout), LAMBDA z_fmt :
         Bind(RecordLayoutDecoder(x_axis_def.record_layout), LAMBDA x_fmt :
         Bind(RecordLayoutDecoder(y_axis_def.record_layout), LAMBDA y_fmt :
         IF z_fmt = "" \/ x_fmt = "" \/ y_fmt = "" THEN Nothing("None", <<>>)
         ELSE IF x_axis_def.max_axis_points <= 0 \/ y_axis_def.max_axis_points <= 0 THEN Nothing("None", <<>>)
         ELSE map_reads(characteristic, x_axis_def, y_axis_def, z_fmt, x_fmt, y_fmt, hex_file))))

\* the signed addresses tried: small ones inside and outside the dump, and
\* the ends of the 32-bit and 64-bit ranges
AddressInputs ==
    {AddrOf(n) : n \in {0, 16, 18, 32, 36, 48, 64, 65536, -1, -16, -65536}}
        \cup {Wide(FALSE, <<0, 0, 0, 128>>), Wide(FALSE, <<0, 0, 0, 0, 1>>),
              Wide(FALSE, <<255, 255, 255, 255, 255, 255, 255, 127>>),
              Wide(FALSE, <<240, 255, 255, 255, 255, 255, 255, 255>>),
              Wide(TRUE, <<0, 0, 0, 128>>), Wide(TRUE, <<72, 92, 197, 253>>),
              Wide(TRUE, <<0, 0, 0, 0, 1>>), Wide(TRUE, <<0, 0, 0, 0, 0, 0, 0, 128>>)}

Scalar_UBYTE == <<"S", "c", "a", "l", "a", "r", "_", "U", "B", "Y", "T", "E">>
Scalar_SWORD == <<"S", "c", "a", "l", "a", "r", "_", "S", "W", "O", "R", "D">>
Scalar_ULONG == <<"S", "c", "a", "l", "a", "r", "_", "U", "L", "O", "N", "G">>
Custom == <<"C", "u", "s", "t", "o", "m">>
LookupLayouts == {Scalar_UBYTE, Scalar_SWORD, Scalar_ULONG, Custom}

CharacteristicInputs ==
    {CharacteristicDict(<<"K">>, layout, ty, addr, NumInt(n)) :
        layout \in LookupLayouts, ty \in {"VALUE", "VAL_BLK"}, addr \in AddressInputs, n \in {0, 2}}

DataTypeInputs == {<<"U", "B", "Y", "T", "E">>, <<"s", "c", "a", "l", "a", "r", "_", "s", "w", "o", "r", "d">>, <<"L", "o", "o", "k", "u", "p", "1", "D", "_", "F", "L", "O", "A", "T", "3", "2", "_", "I", "E", "E", "E">>, Custom}

ElementCounts == {0, 1, 2, 4}

CurveInputs ==
    {CharacteristicDict(<<"C">>, layout, "CURVE", addr, NumInt(n)) :
        layout \in {Scalar_UBYTE, Scalar_SWORD}, addr \in {AddrOf(16), AddrOf(20), AddrOf(64), AddrOf(-16)}, n \in {0, 2, 3, 10}}
        \cup {CharacteristicDict(<<"C">>, Scalar_UBYTE, "VALUE", AddrOf(16), NumInt(1))}

AxisInputs ==
    {NoAxis} \cup {AxisDict(<<"X">>, addr, layout, points) :
                      addr \in {AddrOf(32), AddrOf(36), AddrOf(48), AddrOf(-65536)}, layout \in {Scalar_UBYTE, Scalar_SWORD, Custom},
                      points \in {0, 2, 3, 8}}

MapInputs ==
    {CharacteristicDict(<<"M">>, layout, "MAP", addr, NumInt(0)) :
        layout \in {Scalar_UBYTE, Scalar_SWORD}, addr \in {AddrOf(16), AddrOf(20), AddrOf(64), AddrOf(-16)}}
        \cup {CharacteristicDict(<<"M">>, Scalar_UBYTE, "CURVE", AddrOf(16), NumInt(2))}

MapAxisInputs ==
    {NoAxis} \cup {AxisDict(<<"X">>, addr, Scalar_UBYTE, points) :
                      addr \in {AddrOf(32), AddrOf(36), AddrOf(-1)}, points \in {0, 2, 3}}

\* parse_hex_characteristics for one Characteristic of the A2L file
ParseHexCharacteristics(characteristic) ==
    /\ ~look.called
    /\ LET res == parse_hex_characteristics(<<characteristic>>, DumpFile) IN
         look' = [called |-> TRUE, path |-> "parse_hex_characteristics", args |-> <<characteristic>>,
                  outcome |-> IF res.results = <<>> THEN "skipped" ELSE "ok", fetches |-> res.fetches,
                  result |-> res.results]
    /\ UNCHANGED <<imp_vars, hex_lines, hexf, fetch, dec, norm, batch, sheet, new_vars>>

ParseHexAddressToValue(ecu_address, data_type) ==
    /\ ~look.called
    /\ LET res == parse_hex_address_to_value(ecu_address, data_type, DumpFile) IN
         look' = [called |-> TRUE, path |-> "parse_hex_address_to_value", args |-> <<ecu_address, data_type>>,
                  outcome |-> res.outcome, fetches |-> res.fetches, result |-> res.result]
    /\ UNCHANGED <<imp_vars, hex_lines, hexf, fetch, dec, norm, batch, sheet, new_vars>>

ParseHexValBlk(ecu_address, record_layout, element_count) ==
    /\ ~look.called
    /\ LET res == parse_hex_val_blk(ecu_address, record_layout, element_count, DumpFile) IN
         look' = [called |-> TRUE, path |-> "parse_hex_val_blk", args |-> <<ecu_address, record_layout, element_count>>,
                  outcome |-> res.outcome, fetches |-> res.fetches, result |-> res.result]
    /\ UNCHANGED <<imp_vars, hex_lines, hexf, fetch, dec, norm, batch, sheet, new_vars>>

ParseHexCurve(characteristic, axis_definition) ==
    /\ ~look.called
    /\ LET res == parse_hex_curve(characteristic, axis_definition, DumpFile) IN
         look' = [called |-> TRUE, path |-> "parse_hex_curve", args |-> <<characteristic, axis_definition>>,
                  outcome |-> res.outcome, fetches |-> res.fetches, result |-> res.result]
    /\ UNCHANGED <<imp_vars, hex_lines, hexf, fetch, dec, norm, batch, sheet, new_vars>>

ParseHexMap(characteristic, x_axis_def, y_axis_def) ==
    /\ ~look.called
    /\ LET res == parse_hex_map(characteristic, x_axis_def, y_axis_def, DumpFile) IN
         look' = [called |-> TRUE, path |-> "parse_hex_map", args |-> <<characteristic, x_axis_def, y_axis_def>>,
                  outcome |-> res.outcome, fetches |-> res.fetches, result |-> res.result]
    /\ UNCHANGED <<imp_vars, hex_lines, hexf, fetch, dec, norm, batch, sheet, new_vars>>

\* _format_address(ecu_address) on its own
FormatAddress(ecu_address) ==
    /\ ~look.called
    /\ look' = [called |-> TRUE, path |-> "_format_address", args |-> <<ecu_address>>, outcome |-> "ok",
                fetches |-> <<>>, result |-> format_address(ecu_address)]
    /\ UNCHANGED <<imp_vars, hex_lines, hexf, fetch, dec, norm, batch, sheet, new_vars>>

NextLookup ==
    \/ \E ecu_address \in AddressInputs : FormatAddress(ecu_address)
    \/ \E characteristic \in CharacteristicInputs : ParseHexCharacteristics(characteristic)
    \/ \E ecu_address \in AddressInputs, data_type \in DataTypeInputs : ParseHexAddressToValue(ecu_address, data_type)
    \/ \E ecu_address \in AddressInputs, record_layout \in LookupLayouts, element_count \in ElementCounts :
          ParseHexValBlk(ecu_address, record_layout, element_count)
    \/ \E characteristic \in CurveInputs, axis_definition \in AxisInputs : ParseHexCurve(characteristic, axis_definition)
    \/ \E characteristic \in MapInputs, x_axis_def \in MapAxisInputs, y_axis_def \in MapAxisInputs :
          ParseHexMap(characteristic, x_axis_def, y_axis_def)


(***************************************************************************)
(* Properties of the HEX lookup paths                                      *)
(***************************************************************************)
\* x + y on little-endian magnitudes
RECURSIVE AddWide(_, _, _)
AddWide(x, y, carry) ==
    IF x = <<>> /\ y = <<>> THEN (IF carry = 0 THEN <<>> ELSE <<carry>>)
    ELSE LET a == IF x = <<>> THEN 0 ELSE x[1]
             b == IF y = <<>> THEN 0 ELSE y[1]
         IN <<(a + b + carry) % 256>>
                \o AddWide(IF x = <<>> THEN <<>> ELSE Tail(x), IF y = <<>> THEN <<>> ELSE Tail(y), (a + b + carry) \div 256)

TwoTo64 == <<0, 0, 0, 0, 0, 0, 0, 0, 1>>

\* u = a mod 2^64 for -2^64 < a < 0: 0 <= u < 2^64 and u + |a| = 2^64
IsMod64(u, a) == ~u.neg /\ Len(u.mag) <= 8 /\ AddWide(u.mag, a.mag, 0) = TwoTo64

\* the signed addresses of a lookup, in the order in which it fetches them
SignedAddresses ==
    CASE look.path = "parse_hex_characteristics" -> <<look.args[1].ecu_address>>
      [] look.path \in {"parse_hex_address_to_value", "parse_hex_val_blk"} -> <<look.args[1]>>
      [] look.path = "parse_hex_curve" -> <<look.args[1].ecu_address, look.args[2].ecu_address>>
      [] look.path = "parse_hex_map" -> <<look.args[2].ecu_address, look.args[3].ecu_address, look.args[1].ecu_address>>
      [] OTHER -> <<>>

\* the reports of a lookup: the signed address and what is handed back for it
Reported ==
    IF look.outcome # "ok" THEN {}
    ELSE CASE look.path = "_format_address" -> {<<look.args[1], look.result>>}
           [] look.path = "parse_hex_characteristics" ->
                 {<<look.args[1].ecu_address, look.result[i]>> : i \in 1..Len(look.result)}
           [] look.path = "parse_hex_curve" ->
                 {<<look.args[1].ecu_address, look.result.y_axis>>, <<look.args[2].ecu_address, look.result.x_axis>>}
           [] look.path = "parse_hex_map" ->
                 {<<look.args[1].ecu_address, look.result.z_data>>, <<look.args[2].ecu_address, look.result.x_axis>>,
                  <<look.args[3].ecu_address, look.result.y_axis>>}
           [] OTHER -> {}

\* the number written by upper-case hexadecimal digits without leading zeros
RECURSIVE HexValue(_)
HexValue(ds) ==
    IF ds = <<>> THEN <<>>
    ELSE IF Len(ds) = 1 THEN <<HexDigitOf(ds[1])>>
    ELSE <<HexDigitOf(ds[Len(ds) - 1]) * 16 + HexDigitOf(ds[Len(ds)])>> \o HexValue(SubSeq(ds, 1, Len(ds) - 2))

IsUpperHexOf(ds, mag) ==
    /\ ds # <<>>
    /\ \A i \in 1..Len(ds) : \E j \in 1..16 : HexChars[j] = ds[i]
    /\ ds = <<"0">> \/ ds[1] # "0"
    /\ Strip(HexValue(ds)) = mag

\* C13: the address handed to fetch_bytes for a signed address a is a itself
\* when a >= 0 and a mod 2^64 when a < 0, and is never negative; the address
\* reported is "0x" and the upper-case hex of a for a >= 0, "-0x" and the
\* upper-case hex of |a| for a < 0, and the decimal reported is a.
C13_NegativeAddressHandling ==
    look.called \/ batch.runs > 0 =>
        /\ Len(look.fetches) <= Len(SignedAddresses)
        /\ \A i \in 1..Len(look.fetches) :
              LET a == SignedAddresses[i]
                  handed == look.fetches[i].address
              IN /\ ~handed.neg
                 /\ ~a.neg => handed = a
                 /\ a.neg => IsMod64(handed, a)
        /\ \A i \in 1..Len(batch.fetches) :
              LET a == batch.fetches[i].signed
                  handed == batch.fetches[i].address
              IN /\ ~handed.neg
                 /\ ~a.neg => handed = a
                 /\ a.neg => IsMod64(handed, a)
        /\ \A r \in Reported :
              LET a == r[1]
                  text == r[2].address
              IN /\ r[2].address_decimal = a
                 /\ ~a.neg => Len(text) > 2 /\ SubSeq(text, 1, 2) = <<"0", "x">>
                                 /\ IsUpperHexOf(SubSeq(text, 3, Len(text)), a.mag)
                 /\ a.neg => Len(text) > 3 /\ SubSeq(text, 1, 3) = <<"-", "0", "x">>
                                /\ IsUpperHexOf(SubSeq(text, 4, Len(text)), a.mag)

\* a VAL_BLK lookup at -16 asks the file for 0xFFFFFFFFFFFFFFF0; the address
\* is written "-0x10"
C13_Witness ==
    /\ look.path = "parse_hex_val_blk" /\ look.args[1] = AddrOf(-16)
    /\ Len(look.fetches) = 1
    /\ look.fetches[1].address = Wide(FALSE, <<240, 255, 255, 255, 255, 255, 255, 255>>)
    /\ format_address(look.args[1]).address = <<"-", "0", "x", "1", "0">>

\* the bytes of the dump by absolute address, read off its lines
DumpCells ==
    UNION {{<<(IF k > 5 THEN 65536 ELSE 0) + LineFields(DumpLines[k]).offset_addr + i - 1, LineFields(DumpLines[k]).data[i]>> :
               i \in 1..Len(LineFields(DumpLines[k]).data)} :
           k \in {j \in 1..Len(DumpLines) : LineFields(DumpLines[j]).record_type = 0}}

DumpBytes(a, n) == [i \in 1..n |-> (CHOOSE c \in DumpCells : c[1] = a + i - 1)[2]]

\* element k (from 1) of the array stored at a small address with a layout
ElementAt(address, record_layout, k) ==
    LET fmt == resolve_struct(record_layout)
        a == FromBytesLittle(address.mag)
    IN unpack(fmt, DumpBytes(a + (k - 1) * struct_size(fmt), struct_size(fmt)))

CurveSucceeded == look.called /\ look.path = "parse_hex_curve" /\ look.outcome = "ok"

\* C14: a CURVE whose Y data decodes to m values and whose X axis decodes to
\* n values has point_count = min(m, n); both value lists have that length
\* and data_points pairs x_i with y_i in index order.
C14_CurveTruncation ==
    CurveSucceeded =>
        LET characteristic == look.args[1]
            axis == look.args[2]
            m == characteristic.number.val
            n == IF axis.max_axis_points > 0 THEN axis.max_axis_points ELSE m
            p == IF m < n THEN m ELSE n
            r == look.result
        IN /\ look.fetches[1].size = m * struct_size(resolve_struct(characteristic.record_layout))
           /\ look.fetches[2].size = n * struct_size(resolve_struct(axis.record_layout))
           /\ r.point_count = p
           /\ Len(r.x_axis.values) = p /\ Len(r.y_axis.values) = p /\ Len(r.data_points) = p
           /\ \A i \in 1..p :
                 /\ r.x_axis.values[i] = ElementAt(axis.ecu_address, axis.record_layout, i)
                 /\ r.y_axis.values[i] = ElementAt(characteristic.ecu_address, characteristic.record_layout, i)
                 /\ r.data_points[i] = <<r.x_axis.values[i], r.y_axis.values[i]>>

\* ten Y points and eight X points give eight pairs
C14_Witness ==
    /\ CurveSucceeded
    /\ look.args[1].number = NumInt(10) /\ look.args[2].max_axis_points = 8
    /\ look.result.point_count = 8 /\ Len(look.result.data_points) = 8
    /\ look.fetches[1].size = 10

MapSucceeded == look.called /\ look.path = "parse_hex_map" /\ look.outcome = "ok"

\* C15: a MAP with x_count X points and y_count Y points decodes
\* x_count * y_count Z elements into y_count rows of x_count elements, with
\* matrix[y][x] the flat Z element at index y * x_count + x.
C15_MapMatrixShape ==
    MapSucceeded =>
        LET characteristic == look.args[1]
            x_count == look.args[2].max_axis_points
            y_count == look.args[3].max_axis_points
            matrix == look.result.z_data.matrix
            size == struct_size(resolve_struct(characteristic.record_layout))
        IN /\ look.result.x_count = x_count /\ look.result.y_count = y_count
           /\ look.fetches[3].size = x_count * y_count * size
           /\ look.result.z_data.byte_count = x_count * y_count * size
           /\ Len(matrix) = y_count
           /\ \A y \in 1..y_count :
                 /\ Len(matrix[y]) = x_count
                 /\ \A x \in 1..x_count :
                       matrix[y][x] = ElementAt(characteristic.ecu_address, characteristic.record_layout, (y - 1) * x_count + x)

\* three X points and two Y points over the words 1..6 give [[1,2,3],[4,5,6]]
C15_Witness ==
    /\ MapSucceeded
    /\ look.args[2].max_axis_points = 3 /\ look.args[3].max_axis_points = 2
    /\ look.result.z_data.matrix =
          <<<<[kind |-> "int", neg |-> FALSE, mag |-> <<1>>], [kind |-> "int", neg |-> FALSE, mag |-> <<2>>],
              [kind |-> "int", neg |-> FALSE, mag |-> <<3>>]>>,
            <<[kind |-> "int", neg |-> FALSE, mag |-> <<4>>], [kind |-> "int", neg |-> FALSE, mag |-> <<5>>],
              [kind |-> "int", neg |-> FALSE, mag |-> <<6>>]>>>>

(***************************************************************************)
(* hexparser/utils/hex_client.py : parse_and_save_all_characteristics      *)
(* (SpecBatch).  A Characteristic row carries its id and the axis          *)
(* definitions the axis queries find for it; its columns are NOT NULL, so  *)
(* int(ecu_address) succeeds for every row and names are not empty.        *)
(***************************************************************************)
MaxRuns == 2         \* batch extractions in one behaviour
MaxChars == 2        \* Characteristic rows of the A2L file

HEX_FILE == 1        \* id of the DataFile the batch is run for

BatchRow(n, ty, layout, addr, num, x_axis, y_axis) ==
    [id |-> 0, name |-> n, characteristic_type |-> ty, record_layout |-> layout, ecu_address |-> addr,
     number |-> num, x_axis |-> x_axis, y_axis |-> y_axis]

\* the dict _fetch_characteristics_from_db builds for a row
dict_of(row) ==
    CharacteristicDict(row.name, row.record_layout, row.characteristic_type, row.ecu_address, NumInt(row.number))

\* _fetch_characteristics_from_db(a2l_id, [name]): name__iexact, in id order
fetch_characteristics_from_db(rows, name) ==
    LET hits == SelectSeq(rows, LAMBDA r : upper(r.name) = upper(name)) IN [i \in 1..Len(hits) |-> dict_of(hits[i])]

ZeroBatchStats ==
    [total_characteristics |-> 0, parsed_count |-> 0, saved_count |-> 0, error_count |-> 0,
     by_type |-> [t \in CharacteristicTypes |-> [parsed |-> 0, saved |-> 0, errors |-> 0]]]

\* a Hex(...) instance before it is saved
HexRow(characteristic, line_no, byte_count, data_bytes, current_value) ==
    [id |-> 0, hex_file |-> HEX_FILE, characteristic |-> characteristic.id, line_no |-> line_no,
     byte_count |-> byte_count, offset_addr |-> 0, record_type |-> 0, data_bytes |-> data_bytes,
     checksum |-> 0, current_value |-> current_value]

\* by_type[...]["parsed"] += 1; parsed_count += 1, after the append
Parsed(acc, characteristic, record, fetches) ==
    [stats |-> [acc.stats EXCEPT !.parsed_count = @ + 1,
                                 !.by_type[characteristic.characteristic_type].parsed = @ + 1],
     records |-> Append(acc.records, record), fetches |-> acc.fetches \o fetches]

\* a variant that logs a failure and counts nothing
Failed_uncounted(acc, characteristic, fetches) == [acc EXCEPT !.fetches = @ \o fetches]

\* by_type[...]["errors"] += 1 for the four known types; error_count += 1
Failed(acc, characteristic, fetches) ==
    [stats |-> IF characteristic.characteristic_type \in CharacteristicTypes
               THEN [acc.stats EXCEPT !.error_count = @ + 1,
                                      !.by_type[characteristic.characteristic_type].errors = @ + 1]
               ELSE [acc.stats EXCEPT !.error_count = @ + 1],
     records |-> acc.records, fetches |-> acc.fetches \o fetches]

\* the fetch_bytes calls of a lookup, each beside the signed address of the row
Trace(signed, calls) == [i \in 1..Len(calls) |-> [signed |-> signed[i], address |-> calls[i].address, size |-> calls[i].size]]

\* the body of the loop over the Characteristic rows
extract(acc, characteristic, rows, hex_file) ==
    CASE characteristic.characteristic_type = "VALUE" ->
            Bind(parse_hex_characteristics(fetch_characteristics_from_db(rows, characteristic.name), hex_file), LAMBDA res :
            Bind(Trace(res.asked, res.fetches), LAMBDA trace :
            IF res.results # <<>>
            THEN Bind(res.results[1], LAMBDA result :
                 Parsed(acc, characteristic,
                        HexRow(characteristic, result.line_no, result.byte_count, fromhex(result.raw_bytes),
                                  IF result.byte_count = struct_size(resolve_struct(result.record_layout))
                                  THEN <<result.value>> ELSE result.value), trace))
            ELSE Failed(acc, characteristic, trace)))
      [] characteristic.characteristic_type = "VAL_BLK" ->
            IF characteristic.number <= 0 THEN Failed(acc, characteristic, <<>>)
            ELSE Bind(parse_hex_val_blk(characteristic.ecu_address, characteristic.record_layout,
                                        characteristic.number, hex_file), LAMBDA res :
                 IF res.outcome # "ok"
                 THEN Failed(acc, characteristic, Trace(<<characteristic.ecu_address>>, res.fetches))
                 ELSE Bind([address |-> unsigned_address(characteristic.ecu_address),
                            size |-> struct_size(RecordLayoutDecoder(characteristic.record_layout)) * characteristic.number],
                           LAMBDA call :
                      Bind(fetch_bytes_wide(hex_file, call.address, call.size), LAMBDA got :
                      Bind(Trace(<<characteristic.ecu_address, characteristic.ecu_address>>, res.fetches \o <<call>>),
                           LAMBDA both :
                      IF got.outcome # "ok" THEN Failed(acc, characteristic, both)
                      ELSE Parsed(acc, characteristic,
                                  HexRow(characteristic, got.first_line, Len(got.data), got.data, res.result),
                                  both)))))
      [] characteristic.characteristic_type = "CURVE" ->
            Bind(parse_hex_curve(dict_of(characteristic), characteristic.x_axis, hex_file), LAMBDA res :
            Bind(Trace(<<characteristic.ecu_address, characteristic.x_axis.ecu_address>>, res.fetches), LAMBDA trace :
            IF res.outcome = "ok"
            THEN Bind(res.result.y_axis, LAMBDA y_axis :
                 Parsed(acc, characteristic,
                        HexRow(characteristic, y_axis.line_no, y_axis.byte_count, fromhex(y_axis.raw_bytes),
                                  y_axis.values), trace))
            ELSE Failed(acc, characteristic, trace)))
      [] characteristic.characteristic_type = "MAP" ->
            Bind(parse_hex_map(dict_of(characteristic), characteristic.x_axis, characteristic.y_axis, hex_file), LAMBDA res :
            Bind(Trace(<<characteristic.x_axis.ecu_address, characteristic.y_axis.ecu_address,
                         characteristic.ecu_address>>, res.fetches), LAMBDA trace :
            IF res.outcome = "ok"
            THEN Bind(res.result.z_data, LAMBDA z_data :
                 Parsed(acc, characteristic,
                        HexRow(characteristic, z_data.line_no, z_data.byte_count, fromhex(z_data.raw_bytes),
                                  z_data.matrix), trace))
            ELSE Failed(acc, characteristic, trace)))
      [] OTHER -> Failed(acc, characteristic, <<>>)

\* for characteristic in characteristics: ...
RECURSIVE extract_all(_, _, _, _)
extract_all(acc, idx, rows, hex_file) ==
    IF idx > Len(rows) THEN acc
    ELSE extract_all(extract(acc, rows[idx], rows, hex_file), idx + 1, rows, hex_file)

\* a variant without the unique constraint of Hex.Meta
conflicts_never(table, record) == FALSE

\* unique_together = ('hex_file', 'characteristic', 'line_no')
conflicts(table, record) ==
    \E r \in table : r.hex_file = record.hex_file /\ r.characteristic = record.characteristic /\ r.line_no = record.line_no

\* Hex.objects.bulk_create(records, ignore_conflicts=True)
RECURSIVE bulk_create_hex(_, _, _)
bulk_create_hex(table, next_id, records) ==
    IF records = <<>> THEN [table |-> table, next_id |-> next_id]
    ELSE IF conflicts(table, Head(records)) THEN bulk_create_hex(table, next_id, Tail(records))
    ELSE bulk_create_hex(table \cup {[Head(records) EXCEPT !.id = next_id]}, next_id + 1, Tail(records))

\* saved_count = len(records); by_type[...]["saved"] += 1 for each record
RECURSIVE count_saved(_, _, _)
count_saved(st, records, rows) ==
    IF records = <<>> THEN st
    ELSE LET char_type == rows[Head(records).characteristic].characteristic_type
         IN count_saved([st EXCEPT !.saved_count = @ + 1,
                                   !.by_type = IF char_type \in CharacteristicTypes
                                               THEN [@ EXCEPT ![char_type].saved = @ + 1] ELSE @],
                        Tail(records), rows)

AxisX2 == AxisDict(<<"X">>, AddrOf(32), Scalar_UBYTE, 2)
AxisY2 == AxisDict(<<"Y">>, AddrOf(36), Scalar_UBYTE, 2)
AxisX3 == AxisDict(<<"X">>, AddrOf(32), Scalar_UBYTE, 3)
AxisGap == AxisDict(<<"G">>, AddrOf(48), Scalar_UBYTE, 2)

\* the rows an import may have left in the A2L file
RowInputs ==
    {BatchRow(<<"K">>, "VALUE", Scalar_UBYTE, AddrOf(16), 0, NoAxis, NoAxis),
     BatchRow(<<"k">>, "VALUE", Scalar_SWORD, AddrOf(48), 1, NoAxis, NoAxis),
     BatchRow(<<"Z">>, "VALUE", Scalar_UBYTE, AddrOf(0), 1, NoAxis, NoAxis),
     BatchRow(<<"B">>, "VAL_BLK", Scalar_SWORD, AddrOf(16), 3, NoAxis, NoAxis),
     BatchRow(<<"B">>, "VAL_BLK", Scalar_SWORD, AddrOf(20), 0, NoAxis, NoAxis),
     BatchRow(<<"N">>, "VAL_BLK", Scalar_UBYTE, AddrOf(-16), 2, NoAxis, NoAxis),
     BatchRow(<<"C">>, "CURVE", Scalar_UBYTE, AddrOf(16), 3, AxisX2, NoAxis),
     BatchRow(<<"C">>, "CURVE", Scalar_UBYTE, AddrOf(20), 0, AxisX2, NoAxis),
     BatchRow(<<"D">>, "CURVE", Scalar_UBYTE, AddrOf(16), 2, NoAxis, NoAxis),
     BatchRow(<<"M">>, "MAP", Scalar_SWORD, AddrOf(16), 0, AxisX3, AxisY2),
     BatchRow(<<"M">>, "MAP", Custom, AddrOf(20), 0, AxisX3, AxisY2),
     BatchRow(<<"P">>, "MAP", Scalar_UBYTE, AddrOf(32), 0, AxisGap, AxisY2),
     BatchRow(<<"Q">>, "CUBOID", Scalar_UBYTE, AddrOf(16), 2, NoAxis, NoAxis)}

\* the A2L import leaves its Characteristic rows, numbered in order
ImportCharacteristics(rows) ==
    /\ batch.chars = <<>> /\ batch.runs = 0
    /\ batch' = [batch EXCEPT !.chars = [i \in 1..Len(rows) |-> [rows[i] EXCEPT !.id = i]]]
    /\ UNCHANGED <<imp_vars, hex_lines, hexf, fetch, dec, norm, look, sheet, new_vars>>

\* the loop has run: bulk_create inside transaction.atomic(), then the counts
save_all(b, acc) ==
    Bind(bulk_create_hex(b.hex_table, b.next_id, acc.records), LAMBDA saved :
    [b EXCEPT !.runs = @ + 1, !.outcome = "ok",
              !.stats = count_saved(acc.stats, acc.records, b.chars),
              !.prepared = acc.records, !.fetches = acc.fetches,
              !.hex_table = saved.table, !.next_id = saved.next_id])

\* parse_and_save_all_characteristics(hex_file, a2l_id, hex_path)
ParseAndSaveAll ==
    /\ batch.runs < MaxRuns
    /\ IF batch.chars = <<>>
       THEN batch' = [batch EXCEPT !.runs = @ + 1, !.outcome = "ValueError", !.stats = ZeroBatchStats,
                                   !.prepared = <<>>, !.fetches = <<>>]
       ELSE batch' = save_all(batch,
                              extract_all([stats |-> [ZeroBatchStats EXCEPT !.total_characteristics = Len(batch.chars)],
                                           records |-> <<>>, fetches |-> <<>>], 1, batch.chars, DumpFile))
    /\ UNCHANGED <<imp_vars, hex_lines, hexf, fetch, dec, norm, look, sheet, new_vars>>

\* HexAdmin: an engineer changes the calibration value of a stored row
OperatorEditHex(id) ==
    /\ ~batch.edited
    /\ \E r \in batch.hex_table :
          /\ r.id = id
          /\ batch' = [batch EXCEPT !.edited = TRUE,
                                    !.hex_table = (@ \ {r}) \cup {[r EXCEPT !.current_value = <<>>, !.data_bytes = <<>>]}]
    /\ UNCHANGED <<imp_vars, hex_lines, hexf, fetch, dec, norm, look, sheet, new_vars>>

\* the lists of at most MaxChars rows
RECURSIVE RowLists(_)
RowLists(n) == IF n = 0 THEN {<<>>} ELSE RowLists(n - 1) \cup {Append(l, r) : l \in {x \in RowLists(n - 1) : Len(x) = n - 1}, r \in RowInputs}

NextBatch ==
    \/ \E rows \in RowLists(MaxChars) \ {<<>>} : ImportCharacteristics(rows)
    \/ ParseAndSaveAll
    \/ \E id \in Lowest(Ids(batch.hex_table)) : OperatorEditHex(id)

SpecBatch == Init /\ [][NextBatch]_vars

\* one call of the API: a single lookup, or the batch that runs the lookups
\* for every row of the A2L file
SpecLookup == Init /\ [][(batch = NoBatch /\ NextLookup) \/ (~look.called /\ NextBatch)]_vars

(***************************************************************************)
(* Properties of the batch extraction                                      *)
(***************************************************************************)
BatchRan == batch.runs > 0 /\ batch.outcome = "ok"

PreparedFor == {batch.prepared[i].characteristic : i \in 1..Len(batch.prepared)}

\* the row yields a Hex record when it is the only row of the A2L file
ReadableAlone(row) ==
    extract_all([stats |-> ZeroBatchStats, records |-> <<>>, fetches |-> <<>>], 1, <<row>>, DumpFile).records # <<>>

\* C17: the batch visits every Characteristic; each is counted once, as
\* parsed with one Hex row prepared or as an error, so that parsed_count +
\* error_count = total_characteristics; a row that can be read is prepared
\* whatever happens to the other rows.
C17_BatchAccounting ==
    BatchRan =>
        /\ batch.stats.total_characteristics = Len(batch.chars)
        /\ batch.stats.parsed_count + batch.stats.error_count = batch.stats.total_characteristics
        /\ batch.stats.parsed_count = Len(batch.prepared)
        /\ Cardinality(PreparedFor) = Len(batch.prepared)
        /\ PreparedFor \subseteq 1..Len(batch.chars)
        /\ \A i \in 1..Len(batch.chars) : ReadableAlone(batch.chars[i]) => i \in PreparedFor

\* a CURVE whose point count raises ValueError is counted as an error and
\* the VAL_BLK after it is still prepared
C17_Witness ==
    /\ BatchRan /\ Len(batch.chars) = 2
    /\ batch.chars[1].characteristic_type = "CURVE" /\ batch.chars[1].number = 0
    /\ batch.chars[2].characteristic_type = "VAL_BLK"
    /\ PreparedFor = {2}
    /\ batch.stats.parsed_count = 1 /\ batch.stats.error_count = 1

\* C18: a second batch run for the same DataFile, A2L file and HEX dump
\* leaves the Hex table as it was: no row is added for an existing
\* (hex_file, characteristic, line_no) and no stored row is overwritten.
C18_SecondRunChangesNothing ==
    [][batch.runs >= 1 /\ batch'.runs = batch.runs + 1 /\ batch'.outcome = "ok" => batch'.hex_table = batch.hex_table]_vars

\* the second run prepared rows again, and the row the engineer had changed
\* in between still carries the change
C18_Witness ==
    /\ batch.runs = 2 /\ batch.outcome = "ok" /\ batch.edited
    /\ Len(batch.prepared) > 0 /\ Cardinality(batch.hex_table) = Len(batch.prepared)
    /\ \E r \in batch.hex_table : r.current_value = <<>> /\ r.data_bytes = <<>>

(***************************************************************************)
(* ExcelToCfgConverter (SpecSheet)                                         *)
(*                                                                         *)
(* A cell is a text, a row a sequence of cells, the sheet a sequence of    *)
(* rows as _read_excel returns it.  Columns count from 1 and 0 stands for   *)
(* None.  A character outside ASCII is written as its code point.          *)
(***************************************************************************)
MaxRows == 2         \* data rows of a spreadsheet

\* ExcelToCfgConverter.CFG_HEADER
CFG_HEADER ==
    <<<<"/", "/", " ", "S", "e", "l", "e", "c", "t", "i", "o", "n", " ", "f", "i", "l", "e">>,
      <<"/", "/", " ", "g", "e", "n", "e", "r", "a", "t", "e", "d", " ", "w", "i", "t", "h", " ", ":", " ", "V", "e", "c", "t", "o", "r", " ", "C", "A", "N", "a", "p", "e", " ", "x", "6", "4", " ", "V", "e", "r", "s", "i", "o", "n", " ", "1", "7", ".", "0", ".", "7", "0", ".", "9", "2", "1">>,
      <<"*", " ", "c", "f", "g", "-", "f", "i", "l", "e", "-", "v", "e", "r", "s", "i", "o", "n", " ", ":", " ", "1", ".", "0">>,
      <<>>>>

\* _normalize_cell_value
normalize_cell_value(value) == IF value = <<>> THEN <<>> ELSE upper(strip(value))

\* the column names _find_column_indices looks for, in the order of its if/elif chain
PERIOD_COLUMNS ==
    <<<<"1", "0", "M", "S", "R", "S", "T", "R">>,
      <<"1", "0", "0", "M", "S", "R", "S", "T", "R">>,
      <<"P", "O", "L", "L", "I", "N", "G", "_", "1", "0", "0", "M", "S">>,
      <<"P", "O", "L", "L", "I", "N", "G", "_", "5", "0", "0", "M", "S">>,
      <<"P", "O", "L", "L", "I", "N", "G", "_", "1", "S">>>>

\* the branch of the chain a column name takes, 0 if it takes none
branch_of(col_name) ==
    IF \E k \in 1..5 : Contains(PERIOD_COLUMNS[k], col_name)
    THEN Min({k \in 1..5 : Contains(PERIOD_COLUMNS[k], col_name)})
    ELSE 0

\* _find_column_indices: a later column of the same name replaces an earlier one
find_column_indices(header_row) ==
    [k \in 1..5 |->
        Bind({i \in 1..Len(header_row) : branch_of(normalize_cell_value(header_row[i])) = k}, LAMBDA hits :
        IF hits = {} THEN 0 ELSE Max(hits))]

NAME_CN == <<"U+540D", "U+79F0">>
NAME_EN == <<"N", "A", "M", "E">>

\* _find_signal_name_column: the first column named so, else the first column
find_signal_name_column(header_row) ==
    Bind({i \in 1..Len(header_row) :
            Bind(normalize_cell_value(header_row[i]), LAMBDA col_name :
                Contains(NAME_CN, col_name) \/ col_name = NAME_EN)}, LAMBDA hits :
    IF hits = {} THEN 1 ELSE Min(hits))

NoPeriod == 0 - 1    \* period = None

\* the cell of the column is there and reads X
marked(row, idx) == idx # 0 /\ idx <= Len(row) /\ normalize_cell_value(row[idx]) = <<"X">>

\* a variant that looks at the 100 ms columns first
period_slow_first(row, cols) ==
    IF \E k \in 2..5 : marked(row, cols[k]) THEN 1
    ELSE IF marked(row, cols[1]) THEN 0
    ELSE NoPeriod

\* the period rule of parse_excel
period_of(row, cols) ==
    IF marked(row, cols[1]) THEN 0
    ELSE IF \E k \in 2..5 : marked(row, cols[k]) THEN 1
    ELSE NoPeriod

NONE == <<"N", "O", "N", "E">>
NAN == <<"N", "A", "N">>

\* one pass of the loop of parse_excel
parse_row(acc, row, signal_name_col, cols) ==
    IF row = <<>> \/ signal_name_col > Len(row) THEN acc
    ELSE Bind(strip(row[signal_name_col]), LAMBDA signal_name :
         IF signal_name = <<>> \/ upper(signal_name) = NONE \/ upper(signal_name) = NAN THEN acc
         ELSE Bind(period_of(row, cols), LAMBDA period :
              [signals |-> IF period # NoPeriod
                           THEN Append(acc.signals, [name |-> signal_name, period |-> period])
                           ELSE acc.signals,
               total_signals_count |-> acc.total_signals_count + 1]))

RECURSIVE parse_rows(_, _, _, _)
parse_rows(acc, rows, signal_name_col, cols) ==
    IF rows = <<>> THEN acc
    ELSE parse_rows(parse_row(acc, Head(rows), signal_name_col, cols), Tail(rows), signal_name_col, cols)

NoSignals == [signals |-> <<>>, total_signals_count |-> 0]

\* parse_excel
parse_excel(data) ==
    IF Len(data) < 2 THEN [outcome |-> "ValueError", parsed |-> NoSignals]
    ELSE Bind(find_column_indices(data[1]), LAMBDA cols :
         IF cols[1] = 0 /\ cols[2] = 0 THEN [outcome |-> "ValueError", parsed |-> NoSignals]
         ELSE [outcome |-> "ok",
               parsed |-> parse_rows(NoSignals, Tail(data), find_signal_name_column(data[1]), cols)])

\* f.write(line + '\n') for every line
RECURSIVE write_lines(_)
write_lines(lines) == IF lines = <<>> THEN <<>> ELSE Head(lines) \o <<"\n">> \o write_lines(Tail(lines))

\* f"{signal_name};{period}"
signal_line(signal) == signal.name \o <<";">> \o <<DigitChars[signal.period + 1]>>

\* convert_to_cfg: the outcome and the characters of the file, if one is written
convert_to_cfg(data) ==
    Bind(parse_excel(data), LAMBDA got :
    IF got.outcome # "ok" \/ got.parsed.signals = <<>>
    THEN [outcome |-> "ValueError", parsed |-> got.parsed, written |-> FALSE, file |-> <<>>]
    ELSE [outcome |-> "ok", parsed |-> got.parsed, written |-> TRUE,
          file |-> write_lines(CFG_HEADER) \o
                   write_lines([i \in 1..Len(got.parsed.signals) |-> signal_line(got.parsed.signals[i])])])

\* the header row the module documents
HeaderStandard == <<<<"U+540D", "U+79F0">>, <<"U+89D2", "U+8272">>, <<"1", "0", "m", "s", "R", "S", "t", "r">>, <<"1", "0", "0", "m", "s", "R", "S", "t", "r">>, <<"P", "o", "l", "l", "i", "n", "g", "_", "1", "0", "0", "m", "s">>, <<"P", "o", "l", "l", "i", "n", "g", "_", "5", "0", "0", "m", "s">>, <<"P", "o", "l", "l", "i", "n", "g", "_", "1", "s">>>>

\* other order, other case, surrounding blanks, two Polling columns missing
HeaderReordered == <<<<"P", "o", "l", "l", "i", "n", "g", "_", "1", "s">>, <<" ", "n", "a", "m", "e", " ">>, <<"1", "0", "0", "M", "S", "R", "S", "T", "R">>, <<"1", "0", "m", "s", "r", "s", "t", "r">>>>

\* no 10msRStr column
HeaderNoFast == <<<<"U+540D", "U+79F0">>, <<"1", "0", "0", "m", "s", "R", "S", "t", "r">>, <<"P", "o", "l", "l", "i", "n", "g", "_", "5", "0", "0", "m", "s">>>>

\* neither 10msRStr nor 100msRStr
HeaderNoPeriod == <<<<"U+540D", "U+79F0">>, <<"U+89D2", "U+8272">>, <<"P", "o", "l", "l", "i", "n", "g", "_", "1", "0", "0", "m", "s">>>>

HeaderInputs == {HeaderStandard, HeaderReordered, HeaderNoFast, HeaderNoPeriod}

\* data rows, laid out for the standard header
RowCells ==
    {<<<<"S", "i", "g", "A">>, <<"r">>, <<"X">>, <<>>, <<>>, <<>>, <<>>>>,
     <<<<"S", "i", "g", "B">>, <<"r">>, <<>>, <<"X">>, <<>>, <<>>, <<>>>>,
     <<<<"S", "i", "g", "C">>, <<>>, <<"X">>, <<>>, <<>>, <<"X">>, <<>>>>,
     <<<<"S", "i", "g", "D">>, <<>>, <<>>, <<>>, <<>>, <<>>, <<>>>>,
     <<<<" ", "S", "i", "g", "E", " ">>, <<>>, <<" ", "x", " ">>, <<>>, <<>>, <<>>, <<>>>>,
     <<<<>>, <<>>, <<"X">>, <<>>, <<>>, <<>>, <<>>>>,
     <<<<"N", "o", "n", "e">>, <<>>, <<"X">>, <<>>, <<>>, <<>>, <<>>>>,
     <<<<"N", "A", "N">>, <<>>, <<>>, <<"X">>, <<>>, <<>>, <<>>>>,
     <<<<"S", "i", "g", "F">>, <<>>, <<"Y">>, <<>>, <<>>, <<>>, <<"x">>>>,
     <<<<"S", "i", "g", "G">>, <<>>, <<"X", "X">>, <<>>, <<"X">>, <<>>, <<>>>>,
     <<<<"S", "i", "g", "H">>>>,
     <<>>,
     <<<<"S", "i", "g", "\n", "I">>, <<>>, <<"X">>, <<>>, <<>>, <<>>, <<>>>>,
     <<<<"X">>, <<"X">>, <<"X">>, <<"X">>, <<>>, <<>>, <<>>>>}

\* the sheets with a header and up to n data rows
RECURSIVE DataRows(_)
DataRows(n) == IF n = 0 THEN {<<>>} ELSE DataRows(n - 1) \cup {Append(rs, r) : rs \in DataRows(n - 1), r \in RowCells}

\* an empty sheet, and a header with up to MaxRows data rows
SheetInputs == {<<>>} \cup {<<h>> \o rs : h \in HeaderInputs, rs \in DataRows(MaxRows)}

ParseExcel(data) ==
    /\ ~sheet.called
    /\ sheet' = Bind(parse_excel(data), LAMBDA got :
                 [called |-> TRUE, op |-> "parse_excel", data |-> data, outcome |-> got.outcome,
                  signals |-> got.parsed.signals, total_signals_count |-> got.parsed.total_signals_count,
                  written |-> FALSE, file |-> <<>>])
    /\ UNCHANGED <<imp_vars, hex_lines, hexf, fetch, dec, norm, look, batch, new_vars>>

ConvertToCfg(data) ==
    /\ ~sheet.called
    /\ sheet' = Bind(convert_to_cfg(data), LAMBDA got :
                 [called |-> TRUE, op |-> "convert_to_cfg", data |-> data, outcome |-> got.outcome,
                  signals |-> got.parsed.signals, total_signals_count |-> got.parsed.total_signals_count,
                  written |-> got.written, file |-> got.file])
    /\ UNCHANGED <<imp_vars, hex_lines, hexf, fetch, dec, norm, look, batch, new_vars>>

NextSheet ==
    \/ \E data \in SheetInputs : ParseExcel(data)
    \/ \E data \in SheetInputs : ConvertToCfg(data)

SpecSheet == Init /\ [][NextSheet]_vars

(***************************************************************************)
(* Properties of the converter                                             *)
(***************************************************************************)
\* the columns whose header, trimmed and upper-cased, is the name
ColumnsNamed(header, name) == {i \in 1..Len(header) : upper(strip(header[i])) = name}

\* the cell of the row under the column of that name, empty if there is none
CellUnder(header, row, names) ==
    Bind({i \in UNION {ColumnsNamed(header, n) : n \in names} : i <= Len(row)}, LAMBDA cs :
    IF cs = {} THEN <<>> ELSE row[Min(cs)])

IsX(cell) == upper(strip(cell)) = <<"X">>

SignalName(header, row) == strip(CellUnder(header, row, {NAME_CN, NAME_EN}))

ValidName(name) == name # <<>> /\ upper(name) \notin {NONE, NAN}

ExpectedPeriod(header, row) ==
    IF IsX(CellUnder(header, row, {PERIOD_COLUMNS[1]})) THEN 0
    ELSE IF \E k \in 2..5 : IsX(CellUnder(header, row, {PERIOD_COLUMNS[k]})) THEN 1
    ELSE NoPeriod

\* the data rows with a valid signal name, in row order
ValidRows(data) == SelectSeq(Tail(data), LAMBDA row : ValidName(SignalName(data[1], row)))

\* those of them that carry a mark
EmittedRows(data) == SelectSeq(ValidRows(data), LAMBDA row : ExpectedPeriod(data[1], row) # NoPeriod)

ExpectedSignals(data) ==
    [i \in 1..Len(EmittedRows(data)) |->
        [name |-> SignalName(data[1], EmittedRows(data)[i]), period |-> ExpectedPeriod(data[1], EmittedRows(data)[i])]]

\* the sheet has a header with a 10msRStr or a 100msRStr column and a data row
Readable(data) ==
    /\ Len(data) >= 2
    /\ ColumnsNamed(data[1], PERIOD_COLUMNS[1]) \cup ColumnsNamed(data[1], PERIOD_COLUMNS[2]) # {}

\* C19: every data row with a valid signal name is counted; its period is 0
\* if its 10msRStr cell, trimmed and upper-cased, is X, whatever the other
\* period cells hold, else 1 if one of its 100msRStr, Polling_100ms,
\* Polling_500ms, Polling_1s cells is X, else the row is not emitted; a row
\* whose name is empty or reads NONE or NAN is neither counted nor emitted.
C19_PeriodRule ==
    sheet.called /\ Readable(sheet.data) =>
        /\ sheet.total_signals_count = Len(ValidRows(sheet.data))
        /\ sheet.signals = ExpectedSignals(sheet.data)
        /\ \A i \in 1..Len(sheet.signals) : sheet.signals[i].period \in {0, 1}

\* a row marked under 10msRStr and under Polling_500ms comes out with period
\* 0, the unmarked row after it is counted and left out
C19_Witness ==
    /\ sheet.called /\ sheet.op = "parse_excel" /\ Len(sheet.data) = 3
    /\ sheet.data[1] = HeaderStandard /\ Len(sheet.data[2]) = 7 /\ Len(sheet.data[3]) = 7
    /\ IsX(sheet.data[2][3]) /\ IsX(sheet.data[2][6])
    /\ \A k \in 3..7 : sheet.data[3][k] = <<>>
    /\ sheet.total_signals_count = 2
    /\ Len(sheet.signals) = 1 /\ sheet.signals[1].period = 0

\* the lines of a text file
RECURSIVE Lines(_)
Lines(text) ==
    IF text = <<>> THEN <<>>
    ELSE IF \E i \in 1..Len(text) : text[i] = "\n"
         THEN Bind(Min({i \in 1..Len(text) : text[i] = "\n"}), LAMBDA n :
              <<SubSeq(text, 1, n - 1)>> \o Lines(SubSeq(text, n + 1, Len(text))))
         ELSE <<text>>

\* C20: the file written by convert_to_cfg is the four header lines followed
\* by one line <name>;<period> per emitted signal, in spreadsheet row order,
\* with period 0 or 1, and nothing else.
C20_CfgFormat ==
    sheet.op = "convert_to_cfg" /\ sheet.written =>
        /\ sheet.signals = ExpectedSignals(sheet.data)
        /\ Len(Lines(sheet.file)) = 4 + Len(sheet.signals)
        /\ SubSeq(Lines(sheet.file), 1, 4) = CFG_HEADER
        /\ \A i \in 1..Len(sheet.signals) :
              /\ sheet.signals[i].period \in {0, 1}
              /\ Lines(sheet.file)[4 + i] = sheet.signals[i].name \o <<";", DigitChars[sheet.signals[i].period + 1]>>

(***************************************************************************)
(* Order of the steps of save                                              *)
(***************************************************************************)
\* the caller is inside transaction.atomic() and no exception is on its way
InSave == pc \notin {"idle", "ready", "raising", "raised", "done"}

\* C21: within one call of save the AxisPtsRef and AxisDescr rows of the file
\* are gone before a Characteristic row is created or updated; the existing
\* Characteristic and Measurement rows have been read, and are still what the
\* store holds, when a preparation task runs; both preparations have finished
\* before the first bulk write, and no step writes to the store while a
\* preparation can be running.
C21_ImportStepOrdering ==
    [][/\ InSave /\ db'.characteristics # db.characteristics =>
            /\ FileAxisPtsRefs(db) = {} /\ FileAxisDescrs(db) = {}
            /\ loc.char_prepared /\ loc.meas_prepared
       /\ InSave /\ db'.measurements # db.measurements =>
            loc.char_prepared /\ loc.meas_prepared
       /\ (loc'.char_prepared /\ ~loc.char_prepared) \/ (loc'.meas_prepared /\ ~loc.meas_prepared) =>
            /\ loc.existing_char_dict =
                   existing_dict(db, loc.old_compu_method_id_to_name, FileCharacteristics(db))
            /\ loc.existing_meas_dict =
                   existing_dict(db, loc.old_compu_method_id_to_name, FileMeasurements(db))
            /\ db' = db
       /\ pc = "prepare" => db' = db
       /\ pc = "prepare" /\ pc' # "prepare" => loc'.char_prepared /\ loc'.meas_prepared
      ]_vars

\* a re-import that found axis rows of the file in the store has written its
\* Characteristic rows
C21_Witness ==
    /\ pc = "write_measurements" /\ hist.n_saves = 2
    /\ FileAxisDescrs(hist.entry_db) # {} /\ FileAxisPtsRefs(hist.entry_db) # {}
    /\ FileAxisDescrs(db) = {}
    /\ loc.char_to_update # <<>>
    /\ FileCharacteristics(db) # FileCharacteristics(hist.entry_db)

(***************************************************************************)
(* The preparation tasks of save, element by element (SpecPrepare)          *)
(*                                                                         *)
(* executor.submit hands the two methods to worker threads; every pass of  *)
(* a loop is a step, and the steps of the two tasks interleave freely.     *)
(* The row objects of the two existing-row dictionaries live in one heap,  *)
(* as the tasks assign to them in place.  prep.access collects, per task,  *)
(* the objects it has read and written.                                    *)
(***************************************************************************)
\* an object a task can reach: a parsed element, an entry of the
\* conversion-method map, a field of the importer, an existing row object
Location(kind, idx, key) == [kind |-> kind, idx |-> idx, key |-> key]
NoKey == <<"", 0, "">>

ImporterFields ==
    {Location("importer", 0, <<f, 0, "">>) : f \in {"default_module", "default_work_package", "updater", "a2l_file"}}

NoAccess == [reads |-> {}, writes |-> {}]

NewTask == [pc |-> "start", i |-> 1, module_fallback |-> 0, to_create |-> <<>>, to_update |-> <<>>, processed_keys |-> {}]

\* the heap right after the existing rows were read
heap_of(char_dict, meas_dict) ==
    [l \in {Location("existing_char", 0, k) : k \in DOMAIN char_dict} \cup
           {Location("existing_meas", 0, k) : k \in DOMAIN meas_dict} |->
        IF l.kind = "existing_char" THEN char_dict[l.key] ELSE meas_dict[l.key]]

\* with ThreadPoolExecutor(max_workers=8) as executor: the two submit calls
Submit ==
    /\ pc = "prepare"
    /\ ~prep.started \/ prep.call # hist.n_saves
    /\ prep' = [started |-> TRUE, call |-> hist.n_saves, joined |-> FALSE,
                char |-> NewTask, meas |-> NewTask,
                heap |-> heap_of(loc.existing_char_dict, loc.existing_meas_dict),
                access |-> [char |-> NoAccess, meas |-> NoAccess]]
    /\ UNCHANGED <<imp_vars, hex_lines, hexf, fetch, dec, norm, look, batch, sheet, wpk, a2l>>

Running == pc = "prepare" /\ prep.started /\ prep.call = hist.n_saves /\ ~prep.joined

Touch(access, reads, writes) == [reads |-> access.reads \cup reads, writes |-> access.writes \cup writes]

\* module_fallback = self.default_module or self._find_existing_module()
char_module_fallback(importer, d) ==
    IF importer.default_module # 0 THEN importer.default_module ELSE find_existing_module(d)

\* module_fallback = self.default_module or module, then _find_existing_module()
meas_module_fallback(importer, module, d) ==
    IF importer.default_module # 0 THEN importer.default_module
    ELSE IF module # 0 THEN module
    ELSE find_existing_module(d)

\* the first statements of a task: no module to fall back on returns [], []
begin_task(t, module_fallback) ==
    IF module_fallback = 0 THEN [t EXCEPT !.pc = "done"]
    ELSE [t EXCEPT !.pc = "loop", !.module_fallback = module_fallback]

\* one pass of the loop of _prepare_characteristics_data_with_existing
char_pass(t, heap, chars, compu_method_map, importer) ==
    Bind(chars[t.i], LAMBDA char_data :
    Bind(Get(compu_method_map, char_data.conversion_method, 0), LAMBDA conversion_method :
    Bind(normalize_address(char_data.ecu_address), LAMBDA ecu_address :
    Bind(<<char_data.name, ecu_address, char_data.conversion_method>>, LAMBDA key :
    Bind(characteristic_defaults(char_data, ecu_address, conversion_method, t.module_fallback, importer), LAMBDA defaults :
    Bind(Location("existing_char", 0, key), LAMBDA obj :
    Bind({Location("parsed_characteristics", t.i, NoKey),
          Location("compu_method_map", 0, <<char_data.conversion_method, 0, "">>)}, LAMBDA always :
    IF conversion_method = 0 \/ key \in t.processed_keys
    THEN [task |-> [t EXCEPT !.i = @ + 1], heap |-> heap, reads |-> always, writes |-> {}]
    ELSE IF obj \in DOMAIN heap
    THEN [task |-> [t EXCEPT !.i = @ + 1, !.processed_keys = @ \cup {key},
                             !.to_update = IF Changed(heap[obj], defaults) THEN Append(@, obj) ELSE @],
          heap |-> IF Changed(heap[obj], defaults) THEN [heap EXCEPT ![obj] = Assign(@, defaults)] ELSE heap,
          reads |-> always \cup ImporterFields \cup {obj},
          writes |-> IF Changed(heap[obj], defaults) THEN {obj} ELSE {}]
    ELSE [task |-> [t EXCEPT !.i = @ + 1, !.processed_keys = @ \cup {key},
                             !.to_create = Append(@,
                                 CharacteristicRow(0, THIS_FILE, char_data.name, defaults.ecu_address,
                                                   defaults.conversion_method, defaults.long_identifier,
                                                   defaults.characteristic_type, defaults.record_layout,
                                                   defaults.number, defaults.module, defaults.work_package,
                                                   defaults.updater))],
          heap |-> heap, reads |-> always \cup ImporterFields, writes |-> {}])))))))

\* one pass of the loop of _prepare_measurements_data_with_existing
meas_pass(t, heap, meas, compu_method_map, importer) ==
    Bind(meas[t.i], LAMBDA meas_data :
    Bind(Get(compu_method_map, meas_data.conversion_method, 0), LAMBDA conversion_method :
    Bind(normalize_address(meas_data.ecu_address), LAMBDA ecu_address :
    Bind(<<meas_data.name, ecu_address, meas_data.conversion_method>>, LAMBDA key :
    Bind(measurement_defaults(meas_data, ecu_address, conversion_method, t.module_fallback, importer), LAMBDA defaults :
    Bind(Location("existing_meas", 0, key), LAMBDA obj :
    Bind({Location("parsed_measurements", t.i, NoKey),
          Location("compu_method_map", 0, <<meas_data.conversion_method, 0, "">>)}, LAMBDA always :
    IF conversion_method = 0 \/ key \in t.processed_keys
    THEN [task |-> [t EXCEPT !.i = @ + 1], heap |-> heap, reads |-> always, writes |-> {}]
    ELSE IF obj \in DOMAIN heap
    THEN [task |-> [t EXCEPT !.i = @ + 1, !.processed_keys = @ \cup {key},
                             !.to_update = IF Changed(heap[obj], defaults) THEN Append(@, obj) ELSE @],
          heap |-> IF Changed(heap[obj], defaults) THEN [heap EXCEPT ![obj] = Assign(@, defaults)] ELSE heap,
          reads |-> always \cup ImporterFields \cup {obj},
          writes |-> IF Changed(heap[obj], defaults) THEN {obj} ELSE {}]
    ELSE [task |-> [t EXCEPT !.i = @ + 1, !.processed_keys = @ \cup {key},
                             !.to_create = Append(@,
                                 MeasurementRow(0, THIS_FILE, meas_data.name, defaults.ecu_address,
                                                defaults.conversion_method, defaults.long_identifier,
                                                defaults.datatype, defaults.resolution, defaults.module,
                                                defaults.work_package))],
          heap |-> heap, reads |-> always \cup ImporterFields, writes |-> {}])))))))

\* a step of the worker thread that runs _prepare_characteristics_data_with_existing
CharTaskStep ==
    /\ Running
    /\ prep.char.pc # "done"
    /\ prep' =
         IF prep.char.pc = "start"
         THEN [prep EXCEPT !.char = begin_task(@, char_module_fallback(imp, db)),
                           !.access.char = Touch(@, ImporterFields, {})]
         ELSE IF prep.char.i > Len(parsed.characteristics)
         THEN [prep EXCEPT !.char.pc = "done"]
         ELSE Bind(char_pass(prep.char, prep.heap, parsed.characteristics, loc.compu_method_map, imp), LAMBDA r :
              [prep EXCEPT !.char = r.task, !.heap = r.heap, !.access.char = Touch(@, r.reads, r.writes)])
    /\ UNCHANGED <<imp_vars, hex_lines, hexf, fetch, dec, norm, look, batch, sheet, wpk, a2l>>

\* a step of the worker thread that runs _prepare_measurements_data_with_existing
MeasTaskStep ==
    /\ Running
    /\ prep.meas.pc # "done"
    /\ prep' =
         IF prep.meas.pc = "start"
         THEN [prep EXCEPT !.meas = begin_task(@, meas_module_fallback(imp, loc.module, db)),
                           !.access.meas = Touch(@, ImporterFields \cup {Location("module", 0, NoKey)}, {})]
         ELSE IF prep.meas.i > Len(parsed.measurements)
         THEN [prep EXCEPT !.meas.pc = "done"]
         ELSE Bind(meas_pass(prep.meas, prep.heap, parsed.measurements, loc.compu_method_map, imp), LAMBDA r :
              [prep EXCEPT !.meas = r.task, !.heap = r.heap, !.access.meas = Touch(@, r.reads, r.writes)])
    /\ UNCHANGED <<imp_vars, hex_lines, hexf, fetch, dec, norm, look, batch, sheet, wpk, a2l>>

\* a variant in which the first result is enough
both_returned_or_one(p) == p.char.pc = "done" \/ p.meas.pc = "done"

\* char_future.result() and meas_future.result() have both returned
both_returned(p) == p.char.pc = "done" /\ p.meas.pc = "done"

\* the objects a list of references stands for
deref(heap, refs) == [k \in 1..Len(refs) |-> heap[refs[k]]]

\* char_to_create, char_to_update = char_future.result(); the same for meas
Join ==
    /\ Running
    /\ both_returned(prep)
    /\ loc' = [loc EXCEPT !.char_prepared = TRUE, !.meas_prepared = TRUE,
                          !.char_to_create = prep.char.to_create,
                          !.char_to_update = deref(prep.heap, prep.char.to_update),
                          !.meas_to_create = prep.meas.to_create,
                          !.meas_to_update = deref(prep.heap, prep.meas.to_update)]
    /\ prep' = [prep EXCEPT !.joined = TRUE]
    /\ pc' = "write_characteristics"
    /\ UNCHANGED <<db, imp, parsed, stats, savepoint, hist, hex_lines, hexf, fetch, dec, norm, look, batch, sheet, wpk, a2l>>

NextPrepare ==
    \/ \E module_id \in ModuleIdInputs, updater \in Updaters : Construct(module_id, updater)
    \/ \E p \in ParsedInputs : SaveBegin(p)
    \/ SyncCompuMethods
    \/ DeleteAxisDependents
    \/ LoadExisting
    \/ Submit
    \/ CharTaskStep
    \/ MeasTaskStep
    \/ Join
    \/ WriteCharacteristics
    \/ WriteMeasurements
    \/ SyncAxisPts
    \/ SyncAxisDescrs
    \/ SyncAxisPtsRefs
    \/ SyncRecordLayouts
    \/ SyncAxisPtsX
    \/ Rollback
    \/ Return

SpecPrepare == Init /\ [][NextPrepare]_vars

\* what the two methods return when one runs after the other
Sequential ==
    [char |-> IF char_module_fallback(imp, db) = 0 THEN [to_create |-> <<>>, to_update |-> <<>>]
              ELSE prepare_characteristics(parsed.characteristics, loc.compu_method_map, loc.existing_char_dict,
                                           char_module_fallback(imp, db), imp, <<>>, <<>>, {}, 1),
     meas |-> IF meas_module_fallback(imp, loc.module, db) = 0 THEN [to_create |-> <<>>, to_update |-> <<>>]
              ELSE prepare_measurements(parsed.measurements, loc.compu_method_map, loc.existing_meas_dict,
                                        meas_module_fallback(imp, loc.module, db), imp, <<>>, <<>>, {}, 1)]

\* C22: the two preparation tasks never write an object the other reads or
\* writes; whatever the interleaving, the four lists save receives are those
\* of running the tasks one after the other; save writes only after both
\* tasks have returned.
C22_RaceFreePreparation ==
    prep.started =>
        /\ prep.access.char.writes \cap (prep.access.meas.reads \cup prep.access.meas.writes) = {}
        /\ prep.access.meas.writes \cap (prep.access.char.reads \cup prep.access.char.writes) = {}
        /\ prep.call = hist.n_saves /\ pc \in {"write_characteristics", "write_measurements"} =>
              /\ prep.joined /\ prep.char.pc = "done" /\ prep.meas.pc = "done"
              /\ loc.char_to_create = Sequential.char.to_create
              /\ loc.char_to_update = Sequential.char.to_update
              /\ loc.meas_to_create = Sequential.meas.to_create
              /\ loc.meas_to_update = Sequential.meas.to_update

\* both tasks changed existing row objects and created none, and the
\* Measurement task was the first to return
C22_Witness ==
    /\ pc = "write_characteristics" /\ prep.started /\ prep.joined /\ prep.call = hist.n_saves
    /\ prep.access.char.writes # {} /\ prep.access.meas.writes # {}
    /\ loc.char_to_update # <<>> /\ loc.meas_to_update # <<>>
    /\ Len(parsed.characteristics) > 1 /\ Len(parsed.measurements) > 1

(***************************************************************************)
(* The default work package, resolved by two callers (SpecWorkPackage)      *)
(*                                                                         *)
(* QuerySet.get_or_create is a get, and on DoesNotExist a create; the two  *)
(* are separate statements of the database, so the steps of two callers    *)
(* interleave.  WorkPackage has no unique constraint (models.py:13-15), so *)
(* create never raises IntegrityError.                                     *)
(***************************************************************************)
MaxResolves == 2     \* calls of one caller

\* "importer": A2LDataImporter._resolve_default_unbound_work_package;
\* "default": models.get_default_unbound_work_package
ResolvePaths == {"importer", "default"}

\* every row named "未绑定" of owner "system", soft-deleted or not
DefaultRows(table) == {w \in table : w.name = UNBOUND /\ w.owner = SYSTEM}

\* the rows the lookup of get_or_create matches
LiveDefaultRows(table) == {w \in DefaultRows(table) : ~w.deleted}

\* a caller enters the function
Resolve(c, path) ==
    /\ wpk.caller[c].pc \in {"idle", "done", "raised"}
    /\ wpk.caller[c].calls < MaxResolves
    /\ wpk' = [wpk EXCEPT !.caller[c] = [pc |-> "get", path |-> path, calls |-> @.calls + 1,
                                         entry |-> wpk.table, result |-> 0, created |-> FALSE]]
    /\ UNCHANGED <<imp_vars, hex_lines, hexf, fetch, dec, norm, look, batch, sheet, prep, a2l>>

\* the except branch of get_default_unbound_work_package: the first work
\* package of the table, or ValueError
fallback(table, who) ==
    IF table = {} THEN [who EXCEPT !.pc = "raised"]
    ELSE [who EXCEPT !.pc = "done", !.result = First(table).id]

\* the rows matched by name="未绑定", owner="system", deleted=False
lookup(table) == LiveDefaultRows(table)

\* self.get(**kwargs): one row, DoesNotExist or MultipleObjectsReturned
get(w, c) ==
    Bind(lookup(w.table), LAMBDA found :
    IF found = {} THEN [w EXCEPT !.caller[c].pc = "create"]
    ELSE IF Cardinality(found) > 1
    THEN IF w.caller[c].path = "importer"
         THEN [w EXCEPT !.caller[c].pc = "raised"]
         ELSE [w EXCEPT !.caller[c] = fallback(w.table, @)]
    ELSE Bind(First(found), LAMBDA work_package :
         IF w.caller[c].path = "importer" /\ work_package.deleted
         THEN [w EXCEPT !.table = (@ \ {work_package}) \cup {[work_package EXCEPT !.deleted = FALSE]},
                        !.caller[c].pc = "done", !.caller[c].result = work_package.id]
         ELSE [w EXCEPT !.caller[c].pc = "done", !.caller[c].result = work_package.id]))

Get_(c) ==
    /\ wpk.caller[c].pc = "get"
    /\ wpk' = get(wpk, c)
    /\ UNCHANGED <<imp_vars, hex_lines, hexf, fetch, dec, norm, look, batch, sheet, prep, a2l>>

\* self.create(**params) with the lookup values and the defaults
create(w, c) ==
    [w EXCEPT !.table = @ \cup {[id |-> w.seq, name |-> UNBOUND, owner |-> SYSTEM, deleted |-> FALSE]},
              !.seq = @ + 1,
              !.caller[c].pc = "done", !.caller[c].result = w.seq, !.caller[c].created = TRUE]

Create(c) ==
    /\ wpk.caller[c].pc = "create"
    /\ wpk' = create(wpk, c)
    /\ UNCHANGED <<imp_vars, hex_lines, hexf, fetch, dec, norm, look, batch, sheet, prep, a2l>>

\* an operator ticks "deleted" on a work package in the admin site
OperatorSoftDelete(id) ==
    /\ wpk.deletions < 1
    /\ \E r \in wpk.table :
         /\ r.id = id /\ ~r.deleted
         /\ wpk' = [wpk EXCEPT !.table = (@ \ {r}) \cup {[r EXCEPT !.deleted = TRUE]}, !.deletions = @ + 1]
    /\ UNCHANGED <<imp_vars, hex_lines, hexf, fetch, dec, norm, look, batch, sheet, prep, a2l>>

NextWorkPackage ==
    \/ \E c \in Callers, path \in ResolvePaths : Resolve(c, path)
    \/ \E c \in Callers : Get_(c)
    \/ \E c \in Callers : Create(c)
    \/ \E id \in 1..4 : OperatorSoftDelete(id)

SpecWorkPackage == Init /\ [][NextWorkPackage]_vars

\* caller c returns in this step, and nobody but c has touched the table
\* since c entered
ReturnsUndisturbed(c) ==
    /\ wpk.caller[c].pc \in {"get", "create"}
    /\ wpk'.caller[c].pc \in {"done", "raised"}
    /\ wpk.table = wpk.caller[c].entry

\* C23: when the only "未绑定"/"system" row is soft-deleted, resolving the
\* default work package returns that row with deleted = false and creates no
\* other row; afterwards exactly one such row exists and it is not
\* soft-deleted.
C23_DefaultWorkPackageRestored ==
    [][\A c \in Callers :
         ReturnsUndisturbed(c) /\ Cardinality(DefaultRows(wpk.table)) = 1 /\ LiveDefaultRows(wpk.table) = {} =>
             /\ wpk'.caller[c].pc = "done"
             /\ wpk'.caller[c].result \in Ids(DefaultRows(wpk.table))
             /\ Cardinality(DefaultRows(wpk'.table)) = 1
             /\ LiveDefaultRows(wpk'.table) = DefaultRows(wpk'.table)
      ]_vars

\* C24: when two callers resolve the default work package concurrently while
\* no such row exists, exactly one row that is not soft-deleted exists
\* afterwards and both callers have obtained it.
C24_DefaultWorkPackageRace ==
    /\ \A c \in Callers : wpk.caller[c].pc = "done" /\ wpk.caller[c].calls = 1
                          /\ DefaultRows(wpk.caller[c].entry) = {}
    /\ wpk.deletions = 0
    => /\ Cardinality(LiveDefaultRows(wpk.table)) = 1
       /\ wpk.caller[1].result = wpk.caller[2].result

(***************************************************************************)
(* The A2L parsing client: one CHARACTERISTIC of parse_all_a2l_data        *)
(* (SpecClient)                                                            *)
(*                                                                         *)
(* An attribute of a pya2l object is <<>> when getattr yields None and     *)
(* <<n>> when it yields the number n; a name attribute is "" when it       *)
(* yields None or the empty string (both are false for "or" and "if").    *)
(* Attributes the client only copies (inputQuantity, conversion, limits)   *)
(* are left out of the objects.                                            *)
(***************************************************************************)

MaxAxes == 2        \* AXIS_DESCR blocks of one CHARACTERISTIC

\* x or y on attribute values
or_(x, y) == IF x # <<>> /\ x[1] # 0 THEN x ELSE y

\* x or y on names
or_name(x, y) == IF x # "" THEN x ELSE y

\* the number "a or 0" leaves
number_of(x) == IF x = <<>> THEN 0 ELSE x[1]

AxisPtsRefObj(axisPoints, axis_pts, name) ==
    [axisPoints |-> axisPoints, axis_pts |-> axis_pts, name |-> name]

\* refs: the AXIS_PTS_REF rows of the descriptor; related: whether the
\* relation attribute axis_pts_ref of the descriptor holds them
AxisDescrObj(attribute, maxAxisPoints, numberOfAxisPts, number, refs, related) ==
    [attribute |-> attribute, maxAxisPoints |-> maxAxisPoints, numberOfAxisPts |-> numberOfAxisPts,
     number |-> number, refs |-> refs, related |-> related]

AxisPtsObj(id, name, maxAxisPoints, max_axis_points, number) ==
    [id |-> id, name |-> name, maxAxisPoints |-> maxAxisPoints, max_axis_points |-> max_axis_points, number |-> number]

\* getattr(axis_descr, "axis_pts_ref", []), and the query by _axis_descr_rid
\* when that is empty
axis_pts_refs_of(axis_descr) ==
    Bind(IF axis_descr.related THEN axis_descr.refs ELSE <<>>, LAMBDA axis_pts_refs :
    IF axis_pts_refs = <<>> THEN axis_descr.refs ELSE axis_pts_refs)

\* the name an AXIS_PTS_REF carries
axis_pts_name_of(axis_pts_ref) ==
    or_name(axis_pts_ref.axisPoints, or_name(axis_pts_ref.axis_pts, axis_pts_ref.name))

\* the rows session.query(model.AxisPts).filter_by(name=...) matches;
\* first() takes the one with the lowest row id
axis_pts_first(table, name) == {t \in table : t.name = name}

\* lines 202-209 with the characteristic's number as the first operand
number_from_own_first(axis_descr, number) ==
    or_(number, or_(axis_descr.maxAxisPoints, or_(axis_descr.numberOfAxisPts, axis_descr.number)))

\* lines 202-209: the descriptor's attributes, then the number so far
number_from_axis_descr(axis_descr, number) ==
    or_(axis_descr.maxAxisPoints, or_(axis_descr.numberOfAxisPts, or_(axis_descr.number, number)))

\* lines 211-239: the AXIS_PTS table the descriptor references
number_from_axis_pts(axis_descr, table, number) ==
    Bind(axis_pts_refs_of(axis_descr), LAMBDA axis_pts_refs :
    IF axis_pts_refs = <<>> THEN number
    ELSE Bind(axis_pts_name_of(axis_pts_refs[1]), LAMBDA axis_pts_name :
         IF axis_pts_name = "" \/ axis_pts_first(table, axis_pts_name) = {} THEN number
         ELSE Bind(First(axis_pts_first(table, axis_pts_name)), LAMBDA axis_pts :
              or_(axis_pts.maxAxisPoints, or_(axis_pts.max_axis_points, or_(axis_pts.number, number))))))

\* lines 176-199: the descriptors of the relation attribute, merged with
\* those the query by _characteristic_rid returns (all of them, in row
\* order); the objects are identified by their position in "stored"
merged_axis_descrs(stored, relation) ==
    relation \o SelectSeq([i \in 1..Len(stored) |-> i], LAMBDA i : \A j \in 1..Len(relation) : relation[j] # i)

\* lines 167-239: the number of one characteristic
curve_number(char_type, own, axis_descrs, table) ==
    Bind(<<number_of(own)>>, LAMBDA number :
    IF char_type \in {"CURVE", "MAP", "CUBOID"} /\ axis_descrs # <<>> /\ char_type = "CURVE"
    THEN Bind(number_from_axis_descr(axis_descrs[1], number), LAMBDA from_descr :
         IF number_of(from_descr) = 0
         THEN number_of(number_from_axis_pts(axis_descrs[1], table, from_descr))
         ELSE number_of(from_descr))
    ELSE number_of(number))

\* lines 241-283: the records of the descriptors from element i on
RECURSIVE axis_pts_ref_records_of(_, _, _, _)
axis_pts_ref_records_of(char_name, axis_descr, axis_pts_refs, i) ==
    IF i > Len(axis_pts_refs) THEN <<>>
    ELSE Bind(axis_pts_name_of(axis_pts_refs[i]), LAMBDA axis_pts_name :
         (IF axis_pts_name = "" THEN <<>>
          ELSE <<[characteristic_name |-> char_name, attribute |-> axis_descr.attribute,
                  axis_points |-> axis_pts_name]>>)
         \o axis_pts_ref_records_of(char_name, axis_descr, axis_pts_refs, i + 1))

axis_descr_data(char_name, axis_descr, ref_records) ==
    [characteristic_name |-> char_name, attribute |-> axis_descr.attribute,
     max_axis_points |-> number_of(or_(axis_descr.maxAxisPoints,
                                       or_(axis_descr.numberOfAxisPts, or_(axis_descr.number, <<0>>)))),
     axis_pts_ref_name |-> IF ref_records = <<>> THEN "" ELSE ref_records[1].axis_points]

RECURSIVE axis_records(_, _, _)
axis_records(char_name, axis_descrs, i) ==
    IF i > Len(axis_descrs) THEN [axis_descrs |-> <<>>, axis_pts_refs |-> <<>>]
    ELSE Bind(axis_pts_ref_records_of(char_name, axis_descrs[i], axis_pts_refs_of(axis_descrs[i]), 1),
              LAMBDA ref_records :
         Bind(axis_records(char_name, axis_descrs, i + 1), LAMBDA rest :
              [axis_descrs |-> <<axis_descr_data(char_name, axis_descrs[i], ref_records)>> \o rest.axis_descrs,
               axis_pts_refs |-> ref_records \o rest.axis_pts_refs]))

\* the body of the loop over the CHARACTERISTIC blocks for one block
parse_characteristic(char_name, char_type, own, stored, relation, table) ==
    Bind(IF char_type \in {"CURVE", "MAP", "CUBOID"}
         THEN [i \in 1..Len(merged_axis_descrs(stored, relation)) |-> stored[merged_axis_descrs(stored, relation)[i]]]
         ELSE <<>>, LAMBDA axis_descrs :
    Bind(axis_records(char_name, axis_descrs, 1), LAMBDA records :
         [number |-> curve_number(char_type, own, axis_descrs, table),
          axis_names |-> [i \in 1..Len(records.axis_pts_refs) |-> records.axis_pts_refs[i].axis_points],
          axis_descrs |-> records.axis_descrs,
          axis_pts_refs |-> records.axis_pts_refs]))

\* the AXIS_PTS_REF rows a descriptor may have
AxisPtsRefInputs ==
    {<<>>, <<AxisPtsRefObj("AX1", "", "")>>, <<AxisPtsRefObj("", "", "AX2")>>,
     <<AxisPtsRefObj("", "", ""), AxisPtsRefObj("AX1", "", "")>>, <<AxisPtsRefObj("AX9", "", "")>>}

AxisDescrInputs ==
    {AxisDescrObj("STD_AXIS", <<4>>, <<>>, <<>>, <<AxisPtsRefObj("AX1", "", "")>>, TRUE),
     AxisDescrObj("STD_AXIS", <<>>, <<5>>, <<6>>, <<>>, TRUE),
     AxisDescrObj("COM_AXIS", <<0>>, <<>>, <<6>>, <<AxisPtsRefObj("AX2", "", "")>>, TRUE)}
    \cup {AxisDescrObj("COM_AXIS", <<>>, <<>>, <<>>, refs, related) :
            refs \in AxisPtsRefInputs, related \in BOOLEAN}

\* the AXIS_PTS blocks of the file
AxisPtsInputs ==
    {{},
     {AxisPtsObj(1, "AX1", <<7>>, <<>>, <<>>), AxisPtsObj(2, "AX2", <<>>, <<>>, <<8>>)},
     {AxisPtsObj(1, "AX1", <<0>>, <<>>, <<>>), AxisPtsObj(2, "AX2", <<>>, <<9>>, <<8>>)}}

\* the descriptors stored for the characteristic
StoredInputs == UNION {[1..n -> AxisDescrInputs] : n \in 0..MaxAxes}

\* what the relation attribute axis_descrs holds: all of them, only the
\* first one, or none
RelationInputs(stored) ==
    {[i \in 1..Len(stored) |-> i], [i \in 1..(IF stored = <<>> THEN 0 ELSE 1) |-> i], <<>>}

OwnNumberInputs == {<<>>, <<0>>, <<3>>}

ParseCharacteristic ==
    /\ ~a2l.called
    /\ \E char_type \in {"VALUE", "CURVE", "MAP"}, own \in OwnNumberInputs, stored \in StoredInputs,
          table \in AxisPtsInputs :
         \E relation \in RelationInputs(stored) :
            a2l' = [called |-> TRUE, char_type |-> char_type, own |-> own, stored |-> stored,
                    relation |-> relation, table |-> table,
                    out |-> parse_characteristic("K", char_type, own, stored, relation, table)]
    /\ UNCHANGED <<imp_vars, hex_lines, hexf, fetch, dec, norm, look, batch, sheet, prep, wpk>>

NextClient == ParseCharacteristic

SpecClient == Init /\ [][NextClient]_vars

\* the first descriptor the client sees
FirstAxisDescr == a2l.stored[merged_axis_descrs(a2l.stored, a2l.relation)[1]]

HasAxisDescr == a2l.called /\ a2l.char_type = "CURVE" /\ a2l.stored # <<>>

\* the descriptor's own count, none when all three attributes are absent or 0
DescrCount == number_of(or_(FirstAxisDescr.maxAxisPoints, or_(FirstAxisDescr.numberOfAxisPts, FirstAxisDescr.number)))

\* the count of the AXIS_PTS table the first descriptor references, 0 when
\* there is no reference, no name, no table or no count
TableCount == number_of(number_from_axis_pts(FirstAxisDescr, a2l.table, <<>>))

\* C25: for a CURVE the emitted number is the characteristic's own number
\* when that is present and not zero; otherwise the first descriptor's
\* count; otherwise the count of the referenced AXIS_PTS table.
C25_OwnNumberFirst ==
    HasAxisDescr =>
        a2l.out.number = IF number_of(a2l.own) # 0 THEN number_of(a2l.own)
                         ELSE IF DescrCount # 0 THEN DescrCount
                         ELSE TableCount

\* The chain in the order of the code: for a CURVE with a descriptor the emitted
\* number is the first descriptor's count when that is present and not zero;
\* otherwise the characteristic's own number when that is present and not
\* zero; otherwise the count of the referenced AXIS_PTS table, and 0 when
\* there is none.  A CURVE without descriptor and every other type emit the
\* characteristic's own number, 0 when absent.
AxisDescrFirst ==
    a2l.called =>
        a2l.out.number = IF ~HasAxisDescr THEN number_of(a2l.own)
                         ELSE IF DescrCount # 0 THEN DescrCount
                         ELSE IF number_of(a2l.own) # 0 THEN number_of(a2l.own)
                         ELSE TableCount

(***************************************************************************)
(* Import histories: save called again and again on one A2L file with      *)
(* parse results that differ from call to call (SpecHistory)               *)
(***************************************************************************)

MaxImports == 3      \* calls of save in one history

\* BaseParsed after B and MA were removed from the A2L file
ShrunkParsed == [BaseParsed EXCEPT !.characteristics = <<cA>>, !.measurements = <<>>]

\* a MAP whose two AXIS_DESCR blocks carry the tags t1 and t2 and reference
\* the AXIS_PTS tables AX1 and AX2
MapStored(t1, t2) ==
    <<AxisDescrObj(t1, <<4>>, <<>>, <<>>, <<AxisPtsRefObj("AX1", "", "")>>, TRUE),
      AxisDescrObj(t2, <<5>>, <<>>, <<>>, <<AxisPtsRefObj("AX2", "", "")>>, TRUE)>>

cW == ParsedChar("W", "x", RawInt(128), "w1", "MAP", RawInt(0))

\* BaseParsed with the MAP added, its axis records as the client emits them
MapParsed(t1, t2) ==
    Bind(parse_characteristic("W", "MAP", <<>>, MapStored(t1, t2), <<1, 2>>, {}), LAMBDA out :
    [BaseParsed EXCEPT
        !.characteristics = <<cA, cB, cW>>,
        !.axis_descrs = @ \o [i \in 1..Len(out.axis_descrs) |->
                                 [characteristic_name |-> out.axis_descrs[i].characteristic_name,
                                  attribute |-> out.axis_descrs[i].attribute,
                                  max_axis_points |-> out.axis_descrs[i].max_axis_points]],
        !.axis_pts_refs = @ \o out.axis_pts_refs])

TwoAxisInputs == {MapParsed("STD_AXIS", "STD_AXIS"), MapParsed("STD_AXIS", "COM_AXIS")}

HistoryInputs == {BaseParsed, ShrunkParsed, NegativeParsed} \cup TwoAxisInputs

ImportBegin(p) ==
    /\ hist.n_saves < MaxImports
    /\ save_begin(p)

\* save has returned or raised; the keys of a parse result count once its
\* import has succeeded
ImportReturn ==
    /\ pc \in {"done", "raised"}
    /\ pc' = "ready"
    /\ hist' = [returned(hist) EXCEPT
                  !.char_keys = IF pc = "done" THEN @ \cup ParsedCharacteristicKeys(parsed) ELSE @,
                  !.meas_keys = IF pc = "done" THEN @ \cup ParsedMeasurementKeys(parsed) ELSE @]
    /\ UNCHANGED <<db, imp, parsed, stats, loc, savepoint, hex_vars>>

NextHistory ==
    \/ \E updater \in Updaters : Construct(0, updater)
    \/ \E p \in HistoryInputs : ImportBegin(p)
    \/ SyncCompuMethods
    \/ DeleteAxisDependents
    \/ LoadExisting
    \/ PrepareCharacteristics
    \/ PrepareMeasurements
    \/ WriteCharacteristics
    \/ WriteMeasurements
    \/ SyncAxisPts
    \/ SyncAxisDescrs
    \/ SyncAxisPtsRefs
    \/ SyncRecordLayouts
    \/ SyncAxisPtsX
    \/ Rollback
    \/ ImportReturn

SpecHistory == Init /\ [][NextHistory]_vars

\* C26: after any sequence of successful imports into one A2L file the file
\* has no more Characteristic rows than distinct (name, ECU address,
\* conversion-method name) keys occurred in the parse results imported so
\* far, and no more Measurement rows than such keys of measurements.
C26_NoDuplicateSymbols ==
    pc = "ready" =>
        /\ Cardinality(FileCharacteristics(db)) <= Cardinality(hist.char_keys)
        /\ Cardinality(FileMeasurements(db)) <= Cardinality(hist.meas_keys)

\* the AxisDescr rows of the Characteristic rows named n, and the axis points
\* attached to one of them
AxisDescrRowsOf(n) == {a \in db.axis_descrs : a.characteristic \in Ids(CharacteristicsNamed(db, n))}

AxisPointsOn(a) == {r.axis_points : r \in {q \in db.axis_pts_refs : q.axis_descr = a.id}}

RefsOn(a) == {q \in db.axis_pts_refs : q.axis_descr = a.id}

\* C27: after the import of a MAP whose two axis descriptors reference two
\* different AXIS_PTS tables, each of its two AxisDescr rows carries exactly
\* one AxisPtsRef, the one of the descriptor the row was created from, also
\* when both descriptors carry the same attribute tag.
C27_AxisReferenceAttachment ==
    pc = "done" /\ parsed \in TwoAxisInputs =>
        /\ Cardinality(AxisDescrRowsOf("W")) = 2
        /\ \A a \in AxisDescrRowsOf("W") :
             /\ Cardinality(RefsOn(a)) = 1
             /\ AxisPointsOn(a) = IF a.max_axis_points = 4 THEN {"AX1"} ELSE {"AX2"}

\* the same for descriptors with different attribute tags only
AxisReferenceByAttribute ==
    pc = "done" /\ parsed = MapParsed("STD_AXIS", "COM_AXIS") =>
        /\ Cardinality(AxisDescrRowsOf("W")) = 2
        /\ \A a \in AxisDescrRowsOf("W") :
             /\ Cardinality(RefsOn(a)) = 1
             /\ AxisPointsOn(a) = IF a.max_axis_points = 4 THEN {"AX1"} ELSE {"AX2"}

(***************************************************************************)
(* The Hex row of a VALUE Characteristic                                   *)
(***************************************************************************)

\* the Hex records the batch prepares for the row when it is the only row
\* of the A2L file: none, or the one read at the row's own address with its
\* own record layout and point count
OwnRecords(row) ==
    extract_all([stats |-> ZeroBatchStats, records |-> <<>>, fetches |-> <<>>], 1, <<row>>, DumpFile).records

\* no other row of the file has the name of row i, letter case ignored
NameIsUnique(i) == \A j \in 1..Len(batch.chars) : j # i => upper(batch.chars[j].name) # upper(batch.chars[i].name)

\* C28: the Hex row the batch writes for a VALUE Characteristic holds the
\* bytes fetched at that Characteristic's own address, decoded with its own
\* record layout and point count, also when another Characteristic of the
\* file has the same name or a name that differs only in letter case.
C28_HexRowOfOwnSymbol ==
    BatchRan =>
        \A i \in 1..Len(batch.prepared) :
            batch.chars[batch.prepared[i].characteristic].characteristic_type = "VALUE" =>
                OwnRecords(batch.chars[batch.prepared[i].characteristic]) = <<batch.prepared[i]>>

\* the same for the VALUE rows whose name no other row shares
HexRowOfUniqueName ==
    BatchRan =>
        \A i \in 1..Len(batch.prepared) :
            /\ batch.chars[batch.prepared[i].characteristic].characteristic_type = "VALUE"
            /\ NameIsUnique(batch.prepared[i].characteristic)
            => OwnRecords(batch.chars[batch.prepared[i].characteristic]) = <<batch.prepared[i]>>

(***************************************************************************)
(* fetch_bytes on files whose data records overlap                         *)
(***************************************************************************)

\* no data record is without bytes
NoEmptyRecord == \A k \in DataLines : LineFields(hex_lines[k]).byte_count > 0

\* C29: fetch_bytes(address, size) succeeds whenever every requested address
\* lies inside at least one loaded data record, also when data records
\* overlap or one is nested inside another; it raises KeyError only if some
\* requested address is covered by no record.
C29_FetchOverlapping ==
    FetchCalled /\ NoEmptyRecord =>
        (fetch.outcome = "ok" <=> \A a \in Requested : Covered(a))

\* the same on files whose data records do not overlap
FetchWithoutOverlap ==
    FetchCalled /\ NoEmptyRecord /\ NoOverlap =>
        (fetch.outcome = "ok" <=> \A a \in Requested : Covered(a))

(***************************************************************************)
(* The addresses a HEX file can hold and the addresses handed to           *)
(* fetch_bytes for negative ECU addresses                                  *)
(***************************************************************************)

MaxByteCount == 255      \* the two hex digits of the byte count

\* a little-endian magnitude plus a small number
RECURSIVE add_bytes(_, _)
add_bytes(bs, n) ==
    IF n = 0 THEN bs
    ELSE IF bs = <<>> THEN ToBytes(n)
    ELSE <<(bs[1] + n) % 256>> \o add_bytes(Tail(bs), (bs[1] + n) \div 256)

\* x <= y on little-endian magnitudes without leading zero bytes
RECURSIVE le_bytes(_, _)
le_bytes(x, y) ==
    IF Len(x) # Len(y) THEN Len(x) < Len(y)
    ELSE IF x = <<>> THEN TRUE
    ELSE IF x[Len(x)] # y[Len(y)] THEN x[Len(x)] < y[Len(y)]
    ELSE le_bytes(SubSeq(x, 1, Len(x) - 1), SubSeq(y, 1, Len(y) - 1))

\* _load: base_address = (current_upper << 16) + offset_addr with current_upper
\* the two bytes of a type-0x04 record and offset_addr four hex digits; the
\* last byte of a record lies byte_count - 1 above its base
HighestAddress == add_bytes(<<255, 255>> \o <<255, 255>>, MaxByteCount - 1)

\* some HEX file stores a byte at the address
Coverable(address) == ~address.neg /\ le_bytes(Strip(address.mag), HighestAddress)

\* the negative ECU addresses of the lookups, from -1 down to -2^63, the
\* lowest value of the BigIntegerField
NegativeEcuAddresses == {a \in AddressInputs : a.neg}

\* a lookup has handed the reinterpretation of a negative ECU address to
\* fetch_bytes
NegativeLookupMade ==
    look.called /\ \E i \in 1..Len(look.fetches) : i <= Len(SignedAddresses) /\ SignedAddresses[i].neg

\* C30: negative ECU addresses are decodable: among the negative ECU
\* addresses looked up there is one whose unsigned 64-bit reinterpretation,
\* the address handed to fetch_bytes, is an address that a loadable HEX file
\* can hold.
C30_NegativeAddressDecodable ==
    NegativeLookupMade => \E a \in NegativeEcuAddresses : Coverable(unsigned_address(a))

\* the lowest address handed to fetch_bytes for a negative ECU address is
\* 2^63, for -2^63; the positive addresses of the lookups are coverable up
\* to HighestAddress
LowestReinterpreted == unsigned_address(Wide(TRUE, <<0, 0, 0, 0, 0, 0, 0, 128>>))

NegativeAddressOutOfReach ==
    /\ LowestReinterpreted.mag = <<0, 0, 0, 0, 0, 0, 0, 128>>
    /\ ~le_bytes(LowestReinterpreted.mag, HighestAddress)
    /\ \A a \in NegativeEcuAddresses : le_bytes(LowestReinterpreted.mag, Strip(unsigned_address(a).mag))
    /\ Coverable(AddrOf(65536)) /\ Coverable(Wide(FALSE, <<0, 0, 0, 128>>))
    /\ HighestAddress = <<253, 0, 0, 0, 1>>
    /\ \A i \in 1..Len(look.fetches) :
          look.called /\ i <= Len(SignedAddresses) /\ SignedAddresses[i].neg => look.outcome # "ok"

====
